---- MODULE Spec2Model ----
(***************************************************************************)
(* A model of the canonizer local registry: the content lock store         *)
(* (canonizer/local/lock.py), the transform loader                          *)
(* (canonizer/registry/loader.py), the import workflow                      *)
(* (canonizer/cli/cmds/import_cmd.py), the root and artifact resolver       *)
(* (canonizer/local/resolver.py) and the API's registry-root resolution     *)
(* (canonizer/api.py).                                                      *)
(*                                                                         *)
(* Python strings are sequences of one-character strings, so that regular  *)
(* expressions, prefixes and formatting are computed character by          *)
(* character.  Byte strings are sequences over Bytes.                      *)
(***************************************************************************)
EXTENDS Integers, Sequences, FiniteSets, TLC

VARIABLES
    lock,       \* lock store: the LockFile object under test
    lastAdd,    \* lock store: history, the arguments of the latest add per reference
    ret,        \* lock store: the latest call and its result
    sidecar,    \* loader: the .meta.yaml file (a record, or NoFile)
    bodies,     \* loader: the files next to the sidecar, name -> bytes
    loaded,     \* loader: the result of the latest TransformLoader.load
    disk,       \* import: the file system of the target project (lock.json and registry files)
    procs,      \* import: per process, its position and its in-memory LockFile
    clock,      \* import: the wall clock read by LockFile.save / LockFile.empty
    lastWriter, \* import: history, the process that wrote lock.json last
    markers,    \* resolver: per directory of the chain, the state of its .canonizer entry
    cwd,        \* resolver: the current working directory
    home,       \* resolver: the state of the global root (CANONIZER_HOME)
    envRoot,    \* resolver: the value of CANONIZER_REGISTRY_ROOT
    configRoot, \* resolver: registry.root in the config.yaml files
    files,      \* resolver: the paths that exist besides the chain, the markers and the global root
    call,       \* resolver: the latest call and its result
    converted,  \* resolver: the references converted to relative paths so far
    from_schema, \* differ: the source schema handed to diff_schemas
    to_schema,  \* differ: the target schema handed to diff_schemas
    diff,       \* differ: the latest diff_schemas call and the SchemaDiff it returned
    transform,  \* patcher: the transform stored at transform_path
    schemaDiff, \* patcher: the SchemaDiff handed to patch_transform
    patch       \* patcher: the latest patch_transform call and its PatchResult

lockVars   == <<lock, lastAdd, ret>>
loaderVars == <<sidecar, bodies, loaded>>
importVars == <<disk, procs, clock, lastWriter>>
rootVars   == <<markers, cwd, home, envRoot, configRoot, files, call, converted>>
differVars == <<from_schema, to_schema, diff>>
patchVars  == <<transform, schemaDiff, patch>>
vars       == <<lock, lastAdd, ret, sidecar, bodies, loaded,
               disk, procs, clock, lastWriter,
               markers, cwd, home, envRoot, configRoot, files, call, converted,
               from_schema, to_schema, diff, transform, schemaDiff, patch>>

(***************************************************************************)
(* Bounds                                                                  *)
(***************************************************************************)
MaxContentLen == 2
MaxContents == 3
MaxDepth == 2
MaxClock == 2

(***************************************************************************)
(* Strings and bytes                                                       *)
(***************************************************************************)
None == <<"<None>">>

Bytes == {0, 1}

RECURSIVE SeqsUpTo(_, _)
SeqsUpTo(S, n) ==
    IF n = 0 THEN {<<>>}
    ELSE LET shorter == SeqsUpTo(S, n - 1)
         IN shorter \cup {Append(s, x) : s \in {t \in shorter : Len(t) = n - 1}, x \in S}


Lower == {"a","b","c","d","e","f","g","h","i","j","k","l","m",
          "n","o","p","q","r","s","t","u","v","w","x","y","z"}
Upper == {"A","B","C","D","E","F","G","H","I","J","K","L","M",
          "N","O","P","Q","R","S","T","U","V","W","X","Y","Z"}
Digits == {"0","1","2","3","4","5","6","7","8","9"}

StartsWith(s, prefix) ==
    /\ Len(s) >= Len(prefix)
    /\ SubSeq(s, 1, Len(prefix)) = prefix

Slice(s, from) == SubSeq(s, from + 1, Len(s))

\* The element of a one-element set. The({e(x) : x \in {v}}) is e with x
\* naming the value of v, evaluated once as Python evaluates the right-hand
\* side of an assignment once.
The(S) == CHOOSE r \in S : TRUE

HexAlphabet == <<"0","1","2","3","4","5","6","7","8","9","a","b","c","d","e","f">>

\* n in hexadecimal, zero-padded on the left to width characters (n < 16^8)
ToHex(n, width) ==
    [i \in 1..width |->
        IF width - i >= 8 THEN "0"
        ELSE HexAlphabet[((n \div (16 ^ (width - i))) % 16) + 1]]

\* hashlib.sha256 as a number of fixed width: collision-free on the byte
\* strings of Contents, which it numbers from 1
RECURSIVE Sha256Digest(_)
Sha256Digest(bs) ==
    IF bs = <<>> THEN 1
    ELSE (2 * Sha256Digest(SubSeq(bs, 1, Len(bs) - 1)) + bs[Len(bs)]) % 1073741789

\* The byte strings of the model: the first MaxContents ones, shortest first
\* (Sha256Digest numbers them in that order).
Contents == {b \in SeqsUpTo(Bytes, MaxContentLen) : Sha256Digest(b) <= MaxContents}

HexLen == 64

hexdigest(data) == ToHex(Sha256Digest(data), HexLen)

Sha256Prefix == <<"s","h","a","2","5","6",":">>


(***************************************************************************)
(* Content lock store (canonizer/local/lock.py)                            *)
(***************************************************************************)
\* A raised exception is a record; a raised exception where a string is expected
\* is the one-element sequence Raised.
ValueError == [error |-> "ValueError"]
Raised == <<"<raised>">>
NoEntry == [none |-> TRUE]

HexChars == Digits \cup {"a","b","c","d","e","f"} \cup {"A","B","C","D","E","F"}
Whitespace == {" ", "\t", "\n"}

RECURSIVE LStrip(_)
LStrip(s) == IF s # <<>> /\ s[1] \in Whitespace THEN LStrip(Slice(s, 1)) ELSE s

RECURSIVE RStrip(_)
RStrip(s) ==
    IF s # <<>> /\ s[Len(s)] \in Whitespace THEN RStrip(SubSeq(s, 1, Len(s) - 1)) ELSE s

\* int(text, 16) succeeds: surrounding whitespace, an optional sign, an optional
\* 0x prefix, then hexadecimal digits with single underscores between them.
IntBase16Parses(text) ==
    LET stripped == RStrip(LStrip(text))
        unsigned == IF stripped # <<>> /\ stripped[1] \in {"+", "-"}
                    THEN Slice(stripped, 1) ELSE stripped
        prefixed == /\ Len(unsigned) >= 2
                    /\ unsigned[1] = "0"
                    /\ unsigned[2] \in {"x", "X"}
        digits   == IF prefixed
                    THEN (IF Len(unsigned) >= 3 /\ unsigned[3] = "_"
                          THEN Slice(unsigned, 3) ELSE Slice(unsigned, 2))
                    ELSE unsigned
    IN \E d \in {digits} :
          /\ d # <<>>
          /\ \A i \in 1..Len(d) : d[i] \in HexChars \cup {"_"}
          /\ d[1] # "_"
          /\ d[Len(d)] # "_"
          /\ \A i \in 1..(Len(d) - 1) : ~(d[i] = "_" /\ d[i + 1] = "_")

validate_hash_format(v) ==
    IF ~StartsWith(v, Sha256Prefix) THEN Raised
    ELSE LET hex_part == Slice(v, 7)
         IN IF Len(hex_part) # HexLen THEN Raised
            ELSE IF ~IntBase16Parses(hex_part) THEN Raised
            ELSE v

SchemaLock(path, hash) ==
    IF validate_hash_format(hash) = Raised THEN ValueError
    ELSE [path |-> path, hash |-> hash]

TransformLock(path, hash) ==
    IF validate_hash_format(hash) = Raised THEN ValueError
    ELSE [path |-> path, hash |-> hash]

EmptyMap == [r \in {} |-> None]

Put(map, key, value) ==
    [k \in DOMAIN map \cup {key} |-> IF k = key THEN value ELSE map[k]]

Get(map, key) == IF key \in DOMAIN map THEN map[key] ELSE NoEntry

LockFile(updated_at) ==
    [version |-> <<"1">>, updated_at |-> updated_at,
     schemas |-> EmptyMap, transforms |-> EmptyMap]

\* add_schema that keeps an entry already present for the reference
add_schema_keep(self, schema_ref, path, content) ==
    LET hash_value == Sha256Prefix \o hexdigest(content)
        entry == SchemaLock(path, hash_value)
    IN IF entry = ValueError \/ schema_ref \in DOMAIN self.schemas THEN self
       ELSE [self EXCEPT !.schemas = Put(self.schemas, schema_ref, entry)]

add_schema(self, schema_ref, path, content) ==
    LET hash_value == Sha256Prefix \o hexdigest(content)
        entry == SchemaLock(path, hash_value)
    IN IF entry = ValueError THEN self
       ELSE [self EXCEPT !.schemas = Put(self.schemas, schema_ref, entry)]

\* add_transform that keeps its entry in the schemas map
add_transform_into_schemas(self, transform_ref, path, jsonata_content) ==
    LET hash_value == Sha256Prefix \o hexdigest(jsonata_content)
        entry == TransformLock(path, hash_value)
    IN IF entry = ValueError THEN self
       ELSE [self EXCEPT !.schemas = Put(self.schemas, transform_ref, entry)]

add_transform(self, transform_ref, path, jsonata_content) ==
    LET hash_value == Sha256Prefix \o hexdigest(jsonata_content)
        entry == TransformLock(path, hash_value)
    IN IF entry = ValueError THEN self
       ELSE [self EXCEPT !.transforms = Put(self.transforms, transform_ref, entry)]

get_schema_path(self, schema_ref) ==
    LET entry == Get(self.schemas, schema_ref)
    IN IF entry # NoEntry THEN entry.path ELSE None

get_transform_path(self, transform_ref) ==
    LET entry == Get(self.transforms, transform_ref)
    IN IF entry # NoEntry THEN entry.path ELSE None

\* verify_schema that compares the stored hash with the bare digest
verify_schema_noprefix(self, schema_ref, content) ==
    LET entry == Get(self.schemas, schema_ref)
    IN IF entry = NoEntry THEN FALSE
       ELSE LET actual_hash == hexdigest(content)
            IN entry.hash = actual_hash

verify_schema(self, schema_ref, content) ==
    LET entry == Get(self.schemas, schema_ref)
    IN IF entry = NoEntry THEN FALSE
       ELSE LET actual_hash == Sha256Prefix \o hexdigest(content)
            IN entry.hash = actual_hash

verify_transform(self, transform_ref, jsonata_content) ==
    LET entry == Get(self.transforms, transform_ref)
    IN IF entry = NoEntry THEN FALSE
       ELSE LET actual_hash == Sha256Prefix \o hexdigest(jsonata_content)
            IN entry.hash = actual_hash

(***************************************************************************)
(* Reference grammar (canonizer/local/resolver.py)                         *)
(***************************************************************************)
InvalidReferenceError == <<"<InvalidReferenceError>">>

\* The pieces of s between the characters of seps
Split(s, seps) ==
    The({LET n == Cardinality(pos)
             Nth(k) == IF k = 0 THEN 0
                       ELSE IF k = n + 1 THEN Len(text) + 1
                       ELSE CHOOSE p \in pos : Cardinality({q \in pos : q < p}) = k - 1
         IN [k \in 1..(n + 1) |-> SubSeq(text, Nth(k - 1) + 1, Nth(k) - 1)]
         : text \in {s}, pos \in {{i \in 1..Len(s) : s[i] \in seps}}})

\* One or more characters of a class: [class]+
Plus(s, class) == \E text \in {s} : text # <<>> /\ \A i \in 1..Len(text) : text[i] \in class

\* A pattern closed by $ matches the whole text, or the text without one
\* trailing newline.
DollarCandidates(text) ==
    {text} \cup (IF text # <<>> /\ text[Len(text)] = "\n"
                 THEN {SubSeq(text, 1, Len(text) - 1)} ELSE {})

VendorClass == Lower \cup Upper \cup Digits \cup {".", "_", "-"}
NameClass == Lower \cup Upper \cup Digits \cup {"_", "-"}
IdClass == Lower \cup Upper \cup Digits \cup {"_", "/", "-"}

\* \d+-\d+-\d+
DashTriplet(s) ==
    \E parts \in {Split(s, {"-"})} :
        Len(parts) = 3 /\ \A i \in 1..3 : Plus(parts[i], Digits)

\* \d+[.\-]\d+[.\-]\d+
DotOrDashTriplet(s) ==
    \E parts \in {Split(s, {".", "-"})} :
        Len(parts) = 3 /\ \A i \in 1..3 : Plus(parts[i], Digits)

IgluPrefix == <<"i","g","l","u",":">>
JsonschemaSegment == <<"j","s","o","n","s","c","h","e","m","a">>

\* ^iglu:([a-zA-Z0-9._-]+)/([a-zA-Z0-9_-]+)/jsonschema/(\d+-\d+-\d+)
\* against the whole of s
IgluFullMatch(s) ==
    /\ StartsWith(s, IgluPrefix)
    /\ \E parts \in {Split(Slice(s, Len(IgluPrefix)), {"/"})} :
          /\ Len(parts) = 4
          /\ Plus(parts[1], VendorClass)
          /\ Plus(parts[2], NameClass)
          /\ parts[3] = JsonschemaSegment
          /\ DashTriplet(parts[4])

IGLU_SCHEMA_PATTERN(text) ==
    The({IF hits = {} THEN <<>>
         ELSE The({<<parts[1], parts[2], parts[4]>>
                   : parts \in {Split(Slice(CHOOSE h \in hits : TRUE, Len(IgluPrefix)), {"/"})}})
         : hits \in {{s \in DollarCandidates(text) : IgluFullMatch(s)}}})

\* ^([a-zA-Z0-9_/-]+)@(\d+[.\-]\d+[.\-]\d+) against the whole of s
TransformFullMatch(s) ==
    \E parts \in {Split(s, {"@"})} :
       /\ Len(parts) = 2
       /\ Plus(parts[1], IdClass)
       /\ DotOrDashTriplet(parts[2])

TRANSFORM_PATTERN(text) ==
    The({IF hits = {} THEN <<>> ELSE Split(CHOOSE h \in hits : TRUE, {"@"})
         : hits \in {{s \in DollarCandidates(text) : TransformFullMatch(s)}}})

parse_iglu_ref(schema_ref) ==
    The({IF match = <<>> THEN InvalidReferenceError ELSE match
         : match \in {IGLU_SCHEMA_PATTERN(schema_ref)}})

parse_transform_ref(transform_ref) ==
    The({IF match = <<>> THEN InvalidReferenceError ELSE match
         : match \in {TRANSFORM_PATTERN(transform_ref)}})

schema_ref_to_path(schema_ref) ==
    The({IF parsed = InvalidReferenceError THEN InvalidReferenceError
         ELSE <<"s","c","h","e","m","a","s","/">> \o parsed[1] \o <<"/">> \o parsed[2]
              \o <<"/","j","s","o","n","s","c","h","e","m","a","/">> \o parsed[3]
              \o <<".","j","s","o","n">>
         : parsed \in {parse_iglu_ref(schema_ref)}})

transform_ref_to_path(transform_ref) ==
    The({IF parsed = InvalidReferenceError THEN InvalidReferenceError
         ELSE <<"t","r","a","n","s","f","o","r","m","s","/">> \o parsed[1] \o <<"/">> \o parsed[2]
              \o <<"/","s","p","e","c",".","m","e","t","a",".","y","a","m","l">>
         : parsed \in {parse_transform_ref(transform_ref)}})

(***************************************************************************)
(* The lock store as a state machine: one LockFile object and the calls    *)
(* made on it.                                                             *)
(***************************************************************************)
SchemaRefA == <<"i","g","l","u",":","c","o","m",".","a","/","u","s","e","r","/","j","s","o","n","s","c","h","e","m","a","/","1","-","0","-","0">>
SchemaRefB == <<"i","g","l","u",":","c","o","m",".","a","/","u","s","e","r","/","j","s","o","n","s","c","h","e","m","a","/","1","-","0","-","1">>
TransformRefA == <<"e","m","a","i","l","/","t","o","_","u","s","e","r","@","1",".","0",".","0">>

LockSchemaKeys == {SchemaRefA, TransformRefA}
LockTransformKeys == {TransformRefA}
LockPaths == {schema_ref_to_path(SchemaRefA), transform_ref_to_path(TransformRefA)}

LockInit ==
    /\ lock = LockFile(None)
    /\ lastAdd = [schemas |-> EmptyMap, transforms |-> EmptyMap]
    /\ ret = [op |-> "new", ref |-> <<>>, content |-> <<>>, result |-> FALSE,
            replaced |-> FALSE]

AddSchema(r, p, b) ==
    /\ lock' = add_schema(lock, r, p, b)
    /\ lastAdd' = [lastAdd EXCEPT !.schemas = Put(lastAdd.schemas, r, [path |-> p, content |-> b])]
    /\ ret' = [op |-> "add_schema", ref |-> r, content |-> b, result |-> FALSE,
               replaced |-> r \in DOMAIN lock.schemas]

AddTransform(r, p, b) ==
    /\ lock' = add_transform(lock, r, p, b)
    /\ lastAdd' = [lastAdd EXCEPT !.transforms = Put(lastAdd.transforms, r, [path |-> p, content |-> b])]
    /\ ret' = [op |-> "add_transform", ref |-> r, content |-> b, result |-> FALSE,
               replaced |-> r \in DOMAIN lock.transforms]

VerifySchema(r, b) ==
    /\ ret' = [op |-> "verify_schema", ref |-> r, content |-> b,
               result |-> verify_schema(lock, r, b), replaced |-> FALSE]
    /\ UNCHANGED <<lock, lastAdd>>

VerifyTransform(r, b) ==
    /\ ret' = [op |-> "verify_transform", ref |-> r, content |-> b,
               result |-> verify_transform(lock, r, b), replaced |-> FALSE]
    /\ UNCHANGED <<lock, lastAdd>>

GetSchemaPath(r) ==
    /\ ret' = [op |-> "get_schema_path", ref |-> r, content |-> <<>>,
               result |-> get_schema_path(lock, r), replaced |-> FALSE]
    /\ UNCHANGED <<lock, lastAdd>>

GetTransformPath(r) ==
    /\ ret' = [op |-> "get_transform_path", ref |-> r, content |-> <<>>,
               result |-> get_transform_path(lock, r), replaced |-> FALSE]
    /\ UNCHANGED <<lock, lastAdd>>

LockNext ==
    \/ \E r \in LockSchemaKeys, p \in LockPaths, b \in Contents : AddSchema(r, p, b)
    \/ \E r \in LockTransformKeys, p \in LockPaths, b \in Contents : AddTransform(r, p, b)
    \/ \E r \in LockSchemaKeys, b \in Contents : VerifySchema(r, b)
    \/ \E r \in LockTransformKeys, b \in Contents : VerifyTransform(r, b)
    \/ \E r \in LockSchemaKeys : GetSchemaPath(r)
    \/ \E r \in LockTransformKeys : GetTransformPath(r)

\* The parts of the state a specification does not use stay at rest.
LoaderIdle == sidecar = <<>> /\ bodies = <<>> /\ loaded = <<>>
ImportIdle == disk = <<>> /\ procs = <<>> /\ clock = 0 /\ lastWriter = 0
ResolverIdle ==
    /\ markers = <<>> /\ cwd = 0 /\ home = "" /\ envRoot = <<>>
    /\ configRoot = <<>> /\ files = {} /\ call = <<>>
RefsIdle == converted = <<>>
RootIdle == ResolverIdle /\ RefsIdle
LockIdle == lock = <<>> /\ lastAdd = <<>> /\ ret = <<>>
DifferIdle == from_schema = <<>> /\ to_schema = <<>> /\ diff = <<>>
PatchIdle == transform = <<>> /\ schemaDiff = <<>> /\ patch = <<>>
EvolveIdle == DifferIdle /\ PatchIdle

Init == LockInit /\ LoaderIdle /\ ImportIdle /\ RootIdle /\ EvolveIdle

Next == LockNext /\ UNCHANGED <<loaderVars, importVars, rootVars, differVars, patchVars>>

Spec == Init /\ [][Next]_vars

(***************************************************************************)
(* Properties of the lock store                                            *)
(***************************************************************************)
LockHash(content) == Sha256Prefix \o hexdigest(content)

\* C1: add_schema(r, p, b) followed immediately by verify_schema(r, b') returns
\* TRUE when b' = b and FALSE for every other b'; the same for add_transform
\* followed by verify_transform.
C1_HashStability ==
    [][/\ (ret.op = "add_schema" /\ ret'.op = "verify_schema" /\ ret'.ref = ret.ref)
            => (ret'.result = (ret'.content = ret.content))
       /\ (ret.op = "add_transform" /\ ret'.op = "verify_transform" /\ ret'.ref = ret.ref)
            => (ret'.result = (ret'.content = ret.content))]_vars

\* a verify that returned TRUE for the content of the latest add of its reference
C1_Witness ==
    /\ ret.op = "verify_schema"
    /\ ret.result = TRUE
    /\ ret.ref \in DOMAIN lastAdd.schemas
    /\ lastAdd.schemas[ret.ref].content = ret.content

C4_EntriesAreLatestAdd ==
    /\ DOMAIN lock.schemas = DOMAIN lastAdd.schemas
    /\ DOMAIN lock.transforms = DOMAIN lastAdd.transforms
    /\ \A r \in DOMAIN lastAdd.schemas :
          lock.schemas[r] = [path |-> lastAdd.schemas[r].path,
                             hash |-> LockHash(lastAdd.schemas[r].content)]
    /\ \A r \in DOMAIN lastAdd.transforms :
          lock.transforms[r] = [path |-> lastAdd.transforms[r].path,
                                hash |-> LockHash(lastAdd.transforms[r].content)]

C4_EarlierContentFails ==
    /\ \A r \in DOMAIN lastAdd.schemas :
          lastAdd'.schemas[r].content # lastAdd.schemas[r].content
             => ~verify_schema(lock', r, lastAdd.schemas[r].content)
    /\ \A r \in DOMAIN lastAdd.transforms :
          lastAdd'.transforms[r].content # lastAdd.transforms[r].content
             => ~verify_transform(lock', r, lastAdd.transforms[r].content)

\* C4: after any sequence of adds the entry of a reference is the path and the
\* hash of the content of the latest add for it, and once an add replaces an
\* entry, verifying the earlier (different) content fails.
C4_LastWriteWins ==
    /\ [](C4_EntriesAreLatestAdd)
    /\ [][C4_EarlierContentFails]_vars

\* an add that replaced an entry with another path and another content
C4_Witness ==
    /\ ret.op = "add_schema"
    /\ ret.replaced
    /\ \E r \in DOMAIN lock.transforms :
          /\ lock.transforms[r].path # lock.schemas[ret.ref].path
          /\ lock.transforms[r].hash # lock.schemas[ret.ref].hash

(***************************************************************************)
(* Transform sidecar and loader (canonizer/registry/transform_meta.py,     *)
(* canonizer/registry/loader.py)                                           *)
(***************************************************************************)
NoFile == [missing |-> TRUE]
FileNotFoundError == [error |-> "FileNotFoundError"]
ValidationError == [error |-> "ValidationError"]

EndsWith(s, suffix) ==
    /\ Len(s) >= Len(suffix)
    /\ SubSeq(s, Len(s) - Len(suffix) + 1, Len(s)) = suffix

\* Checksum.jsonata_sha256: pattern ^[a-f0-9]{64}$
ChecksumPattern(v) ==
    /\ Len(v) = HexLen
    /\ \A i \in 1..Len(v) : v[i] \in Digits \cup {"a","b","c","d","e","f"}

validate_spec_path(v) == IF ~EndsWith(v, <<".","j","s","o","n","a","t","a">>) THEN Raised ELSE v

\* TransformMeta.version: pattern ^\d+\.\d+\.\d+$
VersionPattern(v) ==
    \E parts \in {Split(v, {"."})} :
        /\ Len(parts) = 3
        /\ \A k \in 1..3 : parts[k] # <<>> /\ \A i \in 1..Len(parts[k]) : parts[k][i] \in Digits

\* TransformMeta(**meta_dict): the fields the loader reads, validated
TransformMeta(meta_dict) ==
    IF ~VersionPattern(meta_dict.version) THEN ValidationError
    ELSE IF ~ChecksumPattern(meta_dict.checksum) THEN ValidationError
    ELSE IF validate_spec_path(meta_dict.spec_path) = Raised THEN ValidationError
    ELSE [version |-> meta_dict.version, spec_path |-> meta_dict.spec_path,
          checksum |-> meta_dict.checksum]

compute_checksum(self, dir) ==
    IF self.spec_path \notin DOMAIN dir THEN Raised
    ELSE hexdigest(dir[self.spec_path])

\* verify_checksum that accepts whatever the sidecar says
verify_checksum_trusting(self, dir) == TRUE

verify_checksum(self, dir) ==
    LET computed == compute_checksum(self, dir)
    IN computed = self.checksum

\* TransformLoader.load on the sidecar file meta_file in the directory dir
TransformLoader_load(meta_file, dir) ==
    IF meta_file = NoFile THEN FileNotFoundError
    ELSE LET meta == TransformMeta(meta_file)
         IN IF meta = ValidationError THEN ValidationError
            ELSE IF meta.spec_path \notin DOMAIN dir THEN FileNotFoundError
            ELSE LET jsonata_source == dir[meta.spec_path]
                 IN IF ~verify_checksum(meta, dir)
                    THEN [error |-> "ValueError",
                          expected |-> meta.checksum,
                          computed |-> compute_checksum(meta, dir)]
                    ELSE [meta |-> meta, jsonata |-> jsonata_source,
                          jsonata_path |-> meta.spec_path]

SpecJsonata == <<"s","p","e","c",".","j","s","o","n","a","t","a">>
BodyNames == {SpecJsonata, <<"a","l","t",".","j","s","o","n","a","t","a">>}
SpecPaths == BodyNames \cup {<<"s","p","e","c",".","t","x","t">>}
Versions == {<<"1",".","0",".","0">>}
Checksums == {hexdigest(b) : b \in Contents} \cup {<<"X","Y","Z">>}
NotLoaded == [none |-> TRUE]

LoaderInit ==
    /\ sidecar = NoFile
    /\ bodies = EmptyMap
    /\ loaded = NotLoaded

WriteBody(name, b) ==
    /\ bodies' = Put(bodies, name, b)
    /\ loaded' = NotLoaded
    /\ UNCHANGED sidecar

DeleteBody(name) ==
    /\ name \in DOMAIN bodies
    /\ bodies' = [n \in DOMAIN bodies \ {name} |-> bodies[n]]
    /\ loaded' = NotLoaded
    /\ UNCHANGED sidecar

WriteSidecar(checksum, spec_path, version) ==
    /\ sidecar' = [version |-> version, spec_path |-> spec_path, checksum |-> checksum]
    /\ loaded' = NotLoaded
    /\ UNCHANGED bodies

DeleteSidecar ==
    /\ sidecar # NoFile
    /\ sidecar' = NoFile
    /\ loaded' = NotLoaded
    /\ UNCHANGED bodies

Load ==
    /\ loaded' = TransformLoader_load(sidecar, bodies)
    /\ UNCHANGED <<sidecar, bodies>>

LoaderNext ==
    \/ \E name \in BodyNames, b \in Contents : WriteBody(name, b)
    \/ \E name \in BodyNames : DeleteBody(name)
    \/ \E c \in Checksums, p \in SpecPaths, v \in Versions : WriteSidecar(c, p, v)
    \/ DeleteSidecar
    \/ Load

InitLoader == LoaderInit /\ LockIdle /\ ImportIdle /\ RootIdle /\ EvolveIdle

NextLoader == LoaderNext /\ UNCHANGED <<lockVars, importVars, rootVars, differVars, patchVars>>

SpecLoader == InitLoader /\ [][NextLoader]_vars

IsTransform(result) == "meta" \in DOMAIN result
IsError(result, kind) == "error" \in DOMAIN result /\ result.error = kind

\* C2: load returns a transform only if the sidecar's checksum is the SHA-256
\* of the bytes now in the body file at spec_path, and whenever the sidecar is
\* well-formed, the body exists and its bytes do not hash to the checksum, load
\* fails with the checksum error (a ValueError) and returns no transform.
C2_TamperRejected ==
    /\ IsTransform(loaded) =>
          /\ sidecar # NoFile
          /\ sidecar.spec_path \in DOMAIN bodies
          /\ sidecar.checksum = hexdigest(bodies[sidecar.spec_path])
          /\ loaded.jsonata = bodies[sidecar.spec_path]
    /\ ( /\ loaded # NotLoaded
         /\ sidecar # NoFile
         /\ ChecksumPattern(sidecar.checksum)
         /\ EndsWith(sidecar.spec_path, <<".","j","s","o","n","a","t","a">>)
         /\ sidecar.spec_path \in DOMAIN bodies
         /\ sidecar.checksum # hexdigest(bodies[sidecar.spec_path]) )
       => IsError(loaded, "ValueError")

\* a load that failed on the checksum although the other body file matches it
C2_Witness ==
    /\ IsError(loaded, "ValueError")
    /\ \E name \in DOMAIN bodies : hexdigest(bodies[name]) = sidecar.checksum

(***************************************************************************)
(* Import workflow (canonizer/cli/cmds/import_cmd.py): processes running   *)
(* `import run` against one project, each step one file-system operation   *)
(* or one in-memory update.                                                *)
(***************************************************************************)
Procs == {1, 2}

SchemaRefC == <<"i","g","l","u",":","c","o","m",".","a","/","u","s","e","r","/","j","s","o","n","s","c","h","e","m","a","/","2","-","0","-","0">>
SchemaPathA == <<"s","c","h","e","m","a","s","/","c","o","m",".","a","/","u","s","e","r","/","j","s","o","n","s","c","h","e","m","a","/","1","-","0","-","0",".","j","s","o","n">>
TransformDirA == <<"t","r","a","n","s","f","o","r","m","s","/","e","m","a","i","l","/","t","o","_","u","s","e","r","/","1",".","0",".","0">>
SpecJsonataName == <<"s","p","e","c",".","j","s","o","n","a","t","a">>
SpecMetaName == <<"s","p","e","c",".","m","e","t","a",".","y","a","m","l">>

\* The source registry repository given by --from: schema A, and transform A
\* whose sidecar names schemas A and C (C is not in the source).
Source ==
    (SchemaPathA :> <<0>>)
    @@ ((TransformDirA \o <<"/">> \o SpecJsonataName) :> <<0, 1>>)
    @@ ((TransformDirA \o <<"/">> \o SpecMetaName) :>
            [from_schema |-> SchemaRefA, to_schema |-> SchemaRefC])

ImportRefs == {SchemaRefA, TransformRefA,
               <<"i","g","l","u",":","b","o","g","u","s">>, <<"b","o","g","u","s">>}

isoformat(t) == <<"T", HexAlphabet[t + 1]>>

LockFile_empty(now) == LockFile(isoformat(now))

\* LockFile.load: model_validate checks every entry's hash
LockFile_load(document) ==
    IF /\ \A r \in DOMAIN document.schemas :
             SchemaLock(document.schemas[r].path, document.schemas[r].hash) # ValueError
       /\ \A r \in DOMAIN document.transforms :
             TransformLock(document.transforms[r].path, document.transforms[r].hash) # ValueError
    THEN document
    ELSE ValueError

\* LockFile.save that keeps the entries of the file it overwrites
LockFile_save_merging(self, on_disk, now) ==
    IF on_disk = NoFile THEN [self EXCEPT !.updated_at = isoformat(now)]
    ELSE [self EXCEPT
            !.updated_at = isoformat(now),
            !.schemas = [r \in DOMAIN on_disk.schemas \cup DOMAIN self.schemas |->
                            IF r \in DOMAIN self.schemas THEN self.schemas[r]
                            ELSE on_disk.schemas[r]],
            !.transforms = [r \in DOMAIN on_disk.transforms \cup DOMAIN self.transforms |->
                            IF r \in DOMAIN self.transforms THEN self.transforms[r]
                            ELSE on_disk.transforms[r]]]

\* LockFile.save: the document written over the file on_disk (open mode "w")
LockFile_save(self, on_disk, now) == [self EXCEPT !.updated_at = isoformat(now)]

Contains(s, ch) == \E i \in 1..Len(s) : s[i] = ch

detect_ref_type(ref) ==
    IF StartsWith(ref, IgluPrefix) THEN "schema"
    ELSE IF Contains(ref, "@") THEN "transform"
    ELSE "InvalidReferenceError"

Failure(kind) == [error |-> kind]

\* import_schema: the registry files and the LockFile afterwards, or the exception
import_schema(ref, source_registry, registry, lk) ==
    The({IF rel_path = InvalidReferenceError THEN Failure("InvalidReferenceError")
         ELSE IF rel_path \notin DOMAIN source_registry THEN Failure("FileNotFoundError")
         ELSE The({[registry |-> copied,
                    lock |-> add_schema(lk, ref, rel_path, copied[rel_path])]
                   : copied \in {Put(registry, rel_path, source_registry[rel_path])}})
         : rel_path \in {schema_ref_to_path(ref)}})

InDir(path, dir) == StartsWith(path, dir \o <<"/">>)

\* import_transform: the registry files and the LockFile afterwards, or the exception
import_transform(ref, source_registry, registry, lk) ==
    The({IF parsed = InvalidReferenceError THEN Failure("InvalidReferenceError")
         ELSE LET dir == <<"t","r","a","n","s","f","o","r","m","s","/">> \o parsed[1] \o <<"/">> \o parsed[2]
                  sourceFiles == {f \in DOMAIN source_registry : InDir(f, dir)}
                  kept == {f \in DOMAIN registry : ~InDir(f, dir)}
                  jsonata_path == dir \o <<"/">> \o SpecJsonataName
              IN IF sourceFiles = {} THEN Failure("FileNotFoundError")
                 ELSE The({[registry |-> copied,
                            lock |-> IF jsonata_path \in DOMAIN copied
                                     THEN add_transform(lk, ref, rel_path, copied[jsonata_path])
                                     ELSE lk]
                           : copied \in {[f \in kept \cup sourceFiles |->
                                            IF f \in sourceFiles THEN source_registry[f]
                                            ELSE registry[f]]}})
         : parsed \in {parse_transform_ref(ref)}, rel_path \in {transform_ref_to_path(ref)}})

\* the schemas named by the sidecar of an imported transform
schemas_to_import(ref, registry) ==
    LET parsed == parse_transform_ref(ref)
        meta_path == <<"t","r","a","n","s","f","o","r","m","s","/">> \o parsed[1] \o <<"/">> \o parsed[2]
                     \o <<"/">> \o SpecMetaName
    IN IF meta_path \notin DOMAIN registry THEN <<>>
       ELSE <<registry[meta_path].from_schema, registry[meta_path].to_schema>>

Keys(document) ==
    {<<"schema", r>> : r \in DOMAIN document.schemas}
    \cup {<<"transform", r>> : r \in DOMAIN document.transforms}

IdleProc ==
    [pc |-> "idle", ref |-> <<>>, with_schemas |-> FALSE, lock |-> NoFile,
     todo |-> <<>>, loadedKeys |-> {}, added |-> {}]

ImportInit ==
    /\ disk = [lock |-> NoFile, registry |-> EmptyMap]
    /\ procs = [p \in Procs |-> IdleProc]
    /\ clock = 0
    /\ lastWriter = 0

\* import_run up to the root lookup: source missing or no .canonizer/ exits 1
ImpStart(p, ref, with_schemas, found) ==
    /\ procs[p].pc = "idle"
    /\ procs' = [procs EXCEPT ![p] =
          [IdleProc EXCEPT !.pc = IF found THEN "load" ELSE "failed",
                           !.ref = IF found THEN ref ELSE <<>>,
                           !.with_schemas = found /\ with_schemas]]
    /\ UNCHANGED <<disk, clock, lastWriter>>

\* lock = LockFile.load(lock_path) if lock_path.exists() else LockFile.empty()
ImpLoad(p) ==
    /\ procs[p].pc = "load"
    /\ LET lk == IF disk.lock # NoFile THEN LockFile_load(disk.lock)
                 ELSE LockFile_empty(clock)
       IN procs' = [procs EXCEPT ![p].pc = "import", ![p].lock = lk,
                                 ![p].loadedKeys = Keys(lk)]
    /\ UNCHANGED <<disk, clock, lastWriter>>

\* the import of the reference given on the command line
ImpPrimary(p) ==
    /\ procs[p].pc = "import"
    /\ LET ref == procs[p].ref
           ref_type == detect_ref_type(ref)
       IN \E done \in {IF ref_type = "schema"
                       THEN import_schema(ref, Source, disk.registry, procs[p].lock)
                       ELSE IF ref_type = "transform"
                       THEN import_transform(ref, Source, disk.registry, procs[p].lock)
                       ELSE Failure("InvalidReferenceError")} :
          IF "error" \in DOMAIN done
          THEN /\ procs' = [procs EXCEPT ![p].pc = "failed"]
               /\ UNCHANGED disk
          ELSE /\ disk' = [disk EXCEPT !.registry = done.registry]
               /\ procs' = [procs EXCEPT
                    ![p].lock = done.lock,
                    ![p].added = Keys(done.lock) \ Keys(procs[p].lock),
                    ![p].todo = IF ref_type = "transform" /\ procs[p].with_schemas
                                THEN schemas_to_import(ref, done.registry) ELSE <<>>,
                    ![p].pc = IF ref_type = "transform" /\ procs[p].with_schemas
                                 /\ schemas_to_import(ref, done.registry) # <<>>
                              THEN "schemas" ELSE "save"]
    /\ UNCHANGED <<clock, lastWriter>>

\* one turn of the loop over the schemas of an imported transform
ImpSchema(p) ==
    /\ procs[p].pc = "schemas"
    /\ LET schema_ref == Head(procs[p].todo)
           rest == Tail(procs[p].todo)
           next == IF rest = <<>> THEN "save" ELSE "schemas"
       IN \E done \in {import_schema(schema_ref, Source, disk.registry, procs[p].lock)} :
          IF "error" \in DOMAIN done
          THEN /\ procs' = [procs EXCEPT
                    ![p].todo = rest,
                    ![p].pc = IF done.error = "FileNotFoundError" THEN next ELSE "failed"]
               /\ UNCHANGED disk
          ELSE /\ disk' = [disk EXCEPT !.registry = done.registry]
               /\ procs' = [procs EXCEPT
                    ![p].lock = done.lock,
                    ![p].added = procs[p].added \cup (Keys(done.lock) \ Keys(procs[p].lock)),
                    ![p].todo = rest,
                    ![p].pc = next]
    /\ UNCHANGED <<clock, lastWriter>>

\* lock.save(lock_path)
ImpSave(p) ==
    /\ procs[p].pc = "save"
    /\ clock < MaxClock
    /\ clock' = clock + 1
    /\ LET written == LockFile_save(procs[p].lock, disk.lock, clock')
       IN /\ disk' = [disk EXCEPT !.lock = written]
          /\ procs' = [procs EXCEPT ![p].lock = [procs[p].lock EXCEPT
                                                   !.updated_at = isoformat(clock')],
                                    ![p].pc = "done"]
    /\ lastWriter' = p

\* the process has exited; the next command may start
ImpExit(p) ==
    /\ procs[p].pc \in {"done", "failed"}
    /\ procs' = [procs EXCEPT ![p] = IdleProc]
    /\ UNCHANGED <<disk, clock, lastWriter>>

ImportNext ==
    \/ \E p \in Procs, ref \in ImportRefs, ws \in BOOLEAN, found \in BOOLEAN :
          ImpStart(p, ref, ws, found)
    \/ \E p \in Procs : ImpLoad(p)
    \/ \E p \in Procs : ImpPrimary(p)
    \/ \E p \in Procs : ImpSchema(p)
    \/ \E p \in Procs : ImpSave(p)
    \/ \E p \in Procs : ImpExit(p)

InitImport == ImportInit /\ LockIdle /\ LoaderIdle /\ RootIdle /\ EvolveIdle

NextImport == ImportNext /\ UNCHANGED <<lockVars, loaderVars, rootVars, differVars, patchVars>>

SpecImport == InitImport /\ [][NextImport]_vars

\* C3: when a process has saved last and finished, the lock file is exactly
\* its document: the entries it loaded plus the entries it added itself, and
\* nothing of what another process saved in between.
C3_LastWriterWins ==
    (lastWriter # 0 /\ procs[lastWriter].pc = "done") =>
        /\ disk.lock = procs[lastWriter].lock
        /\ Keys(disk.lock) = procs[lastWriter].loadedKeys \cup procs[lastWriter].added

\* both processes completed successfully and the entry added by the one that
\* saved first is absent from the lock file
C3_Witness ==
    /\ \A p \in Procs : procs[p].pc = "done"
    /\ \E q \in Procs \ {lastWriter} :
          /\ procs[q].added # {}
          /\ \A k \in procs[q].added : k \notin Keys(disk.lock)
(***************************************************************************)
(* Paths and the file system seen by the resolver.  A path is the sequence *)
(* of its components below the filesystem root; every path of the model is *)
(* absolute.                                                               *)
(***************************************************************************)
CANONIZER_DIR == <<".","c","a","n","o","n","i","z","e","r">>
CONFIG_FILENAME == <<"c","o","n","f","i","g",".","y","a","m","l">>

\* An absent optional path argument (Python None); a given one is [path |-> p].
NoPath == [none |-> TRUE]

\* pathlib.PurePath(text) for an absolute text: the components between the
\* slashes, empty components and "." dropped
PathOf(text) ==
    SelectSeq(Split(text, {"/"}), LAMBDA part : part # <<>> /\ part # <<".">>)

\* base / text: an absolute text replaces base
Join(base, text) ==
    IF text # <<>> /\ text[1] = "/" THEN PathOf(text) ELSE base \o PathOf(text)

\* Path.parent: the filesystem root is its own parent
parent(path) == IF path = <<>> THEN <<>> ELSE SubSeq(path, 1, Len(path) - 1)

\* Path.resolve() where nothing is a symbolic link: ".." steps to the parent
RECURSIVE Resolve(_)
Resolve(path) ==
    IF path = <<>> THEN <<>>
    ELSE The({IF path[Len(path)] = <<".", ".">> THEN parent(front)
              ELSE Append(front, path[Len(path)])
              : front \in {Resolve(parent(path))}})

\* the home directory of the user and Path.expanduser()
UserHome == <<<<"h">>>>
expanduser(path) ==
    IF path # <<>> /\ path[1] = <<"~">> THEN UserHome \o Tail(path) ELSE path

\* the directory at depth k of the chain below the filesystem root
Dir(k) == [i \in 1..k |-> <<"d">>]
Depths == 0..MaxDepth

\* get_canonizer_home with CANONIZER_HOME unset
get_canonizer_home == expanduser(PathOf(<<"~","/",".","c","o","n","f","i","g","/","c","a","n","o","n","i","z","e","r">>))

\* the names of the regular files among the paths of files; the others are directories
RegularFileNames ==
    {<<"1","-","0","-","0",".","j","s","o","n">>,
     <<"s","p","e","c",".","m","e","t","a",".","y","a","m","l">>,
     <<"s","p","e","c",".","j","s","o","n","a","t","a">>}

MarkerKinds == {"absent", "nocfg", "cfg"}

\* Path.is_dir() and Path.exists() in the current file system
is_dir(path) ==
    \E p \in {Resolve(path)} :
        \/ \E k \in Depths : p = Dir(k)
        \/ \E k \in Depths : p = Dir(k) \o <<CANONIZER_DIR>> /\ markers[k] # "absent"
        \/ p = get_canonizer_home /\ home # "absent"
        \/ p \in files /\ p[Len(p)] \notin RegularFileNames

exists(path) ==
    \E p \in {Resolve(path)} :
        \/ is_dir(p)
        \/ p \in files
        \/ \E k \in Depths :
              p = Dir(k) \o <<CANONIZER_DIR, CONFIG_FILENAME>> /\ markers[k] = "cfg"
        \/ p = get_canonizer_home \o <<CONFIG_FILENAME>> /\ home = "cfg"
(***************************************************************************)
(* Root resolver (canonizer/local/resolver.py, find_canonizer_root) and    *)
(* project configuration (canonizer/local/config.py).  A call returns      *)
(* [path |-> p] or raises [error |-> name].                                *)
(***************************************************************************)
CanonizerRootNotFoundError == [error |-> "CanonizerRootNotFoundError"]

HasConfiguredMarker(dir) ==
    /\ is_dir(dir \o <<CANONIZER_DIR>>)
    /\ exists(dir \o <<CANONIZER_DIR, CONFIG_FILENAME>>)

\* a walk that accepts a marker directory without looking for its config.yaml
RECURSIVE WalkUp_any_marker(_)
WalkUp_any_marker(current) ==
    IF current # parent(current)
    THEN IF is_dir(current \o <<CANONIZER_DIR>>)
         THEN [path |-> current \o <<CANONIZER_DIR>>]
         ELSE WalkUp_any_marker(parent(current))
    ELSE IF is_dir(current \o <<CANONIZER_DIR>>)
         THEN [path |-> current \o <<CANONIZER_DIR>>]
         ELSE CanonizerRootNotFoundError

\* the loop over current, current.parent, ... and the check of the root directory
RECURSIVE WalkUp(_)
WalkUp(current) ==
    IF current # parent(current)
    THEN IF HasConfiguredMarker(current)
         THEN [path |-> current \o <<CANONIZER_DIR>>]
         ELSE WalkUp(parent(current))
    ELSE IF HasConfiguredMarker(current)
         THEN [path |-> current \o <<CANONIZER_DIR>>]
         ELSE CanonizerRootNotFoundError

\* find_canonizer_root that falls back to the global root whatever its argument
find_canonizer_root_always_global(start_arg) ==
    LET start_path == IF start_arg = NoPath THEN [path |-> Dir(cwd)] ELSE start_arg
        resolved == [path |-> Resolve(start_path.path)]
        hit == WalkUp(resolved.path)
        global_home == get_canonizer_home
    IN IF hit # CanonizerRootNotFoundError THEN hit
       ELSE IF is_dir(global_home) /\ exists(global_home \o <<CONFIG_FILENAME>>)
            THEN [path |-> global_home]
       ELSE CanonizerRootNotFoundError

\* find_canonizer_root(start_path): the parameter is rebound to the working
\* directory when it is None and then to its resolved form, and it is the
\* rebound parameter that the test before the global fallback reads
find_canonizer_root(start_arg) ==
    LET start_path == IF start_arg = NoPath THEN [path |-> Dir(cwd)] ELSE start_arg
        resolved == [path |-> Resolve(start_path.path)]
        hit == WalkUp(resolved.path)
        global_home == get_canonizer_home
    IN IF hit # CanonizerRootNotFoundError THEN hit
       ELSE IF resolved = NoPath
               /\ is_dir(global_home) /\ exists(global_home \o <<CONFIG_FILENAME>>)
            THEN [path |-> global_home]
       ELSE CanonizerRootNotFoundError

\* RegistryConfig.validate_root_path
validate_root_path(v) ==
    IF StartsWith(v, <<"/">>) \/ \E i \in 1..(Len(v) - 1) : v[i] = "." /\ v[i + 1] = "."
    THEN ValueError ELSE [root |-> v]

\* RegistryConfig.root when config.yaml does not give it
DefaultRoot == <<"r","e","g","i","s","t","r","y">>

\* the content of every config.yaml of the model: the defaults but for registry.root
ConfigData == [registry |-> [mode |-> "local", root |-> configRoot]]

\* CanonizerConfig.load
CanonizerConfig_load(config_path) ==
    IF ~exists(config_path) THEN [error |-> "FileNotFoundError"]
    ELSE IF validate_root_path(ConfigData.registry.root) = ValueError THEN ValueError
    ELSE ConfigData

\* CanonizerConfig.get_registry_path
get_registry_path(self, canonizer_root) ==
    Resolve(Join(canonizer_root, self.registry.root))
(***************************************************************************)
(* Artifact resolver (canonizer/local/resolver.py).  A call returns        *)
(* [path |-> p, walked |-> b] or raises [error |-> name, ..., walked |-> b]; *)
(* walked records whether find_canonizer_root was called on the way.       *)
(***************************************************************************)
\* os.environ.get("CANONIZER_REGISTRY_ROOT"): None, or the text of the variable
Truthy(text) == text # None /\ text # <<>>

\* the registry lookup that always goes through the project root
registry_path_for_ignoring_override(canonizer_root) ==
    The({IF "error" \in DOMAIN root THEN [error |-> root.error, walked |-> canonizer_root = NoPath]
         ELSE The({IF "error" \in DOMAIN config
                   THEN [error |-> config.error, walked |-> canonizer_root = NoPath]
                   ELSE [registry_path |-> get_registry_path(config, root.path),
                         walked |-> canonizer_root = NoPath]
                   : config \in {CanonizerConfig_load(root.path \o <<CONFIG_FILENAME>>)}})
         : root \in {IF canonizer_root = NoPath THEN find_canonizer_root(NoPath)
                     ELSE canonizer_root}})

\* the first lines of resolve_schema and of resolve_transform: the registry path
registry_path_for(canonizer_root) ==
    LET registry_root_override == envRoot
    IN IF canonizer_root = NoPath /\ Truthy(registry_root_override)
       THEN [registry_path |-> Resolve(expanduser(PathOf(registry_root_override))),
             walked |-> FALSE]
       ELSE The({IF "error" \in DOMAIN root
                 THEN [error |-> root.error, walked |-> canonizer_root = NoPath]
                 ELSE The({IF "error" \in DOMAIN config
                           THEN [error |-> config.error, walked |-> canonizer_root = NoPath]
                           ELSE [registry_path |-> get_registry_path(config, root.path),
                                 walked |-> canonizer_root = NoPath]
                           : config \in {CanonizerConfig_load(root.path \o <<CONFIG_FILENAME>>)}})
                 : root \in {IF canonizer_root = NoPath THEN find_canonizer_root(NoPath)
                             ELSE canonizer_root}})

\* base / t1 / t2 / ...
RECURSIVE JoinAll(_, _)
JoinAll(base, texts) ==
    IF texts = <<>> THEN base ELSE JoinAll(Join(base, Head(texts)), Tail(texts))

\* the message of a not-found error, line by line
NotFoundMessage(what, ref, expected_path) ==
    [not_found |-> [what |-> what, ref |-> ref],
     expected_at |-> expected_path,
     import_it_with |-> [command |-> "canonizer import --ref", ref |-> ref]]

\* resolve_schema that never looks at the file system
resolve_schema_unchecked(schema_ref, canonizer_root, must_exist) ==
    The({IF "error" \in DOMAIN reg THEN reg
         ELSE IF parsed = InvalidReferenceError
         THEN [error |-> "InvalidReferenceError", walked |-> reg.walked]
         ELSE LET schema_path ==
                    JoinAll(reg.registry_path,
                            <<<<"s","c","h","e","m","a","s">>, parsed[1], parsed[2], <<"j","s","o","n","s","c","h","e","m","a">>,
                              parsed[3] \o <<".","j","s","o","n">>>>)
              IN [path |-> Resolve(schema_path), walked |-> reg.walked]
         : reg \in {registry_path_for(canonizer_root)},
           parsed \in {parse_iglu_ref(schema_ref)}})

resolve_schema(schema_ref, canonizer_root, must_exist) ==
    The({IF "error" \in DOMAIN reg THEN reg
         ELSE IF parsed = InvalidReferenceError
         THEN [error |-> "InvalidReferenceError", walked |-> reg.walked]
         ELSE LET schema_path ==
                    JoinAll(reg.registry_path,
                            <<<<"s","c","h","e","m","a","s">>, parsed[1], parsed[2], <<"j","s","o","n","s","c","h","e","m","a">>,
                              parsed[3] \o <<".","j","s","o","n">>>>)
              IN IF must_exist /\ ~exists(schema_path)
                 THEN [error |-> "SchemaNotFoundError",
                       message |-> NotFoundMessage("Schema not found", schema_ref, schema_path),
                       walked |-> reg.walked]
                 ELSE [path |-> Resolve(schema_path), walked |-> reg.walked]
         : reg \in {registry_path_for(canonizer_root)},
           parsed \in {parse_iglu_ref(schema_ref)}})

resolve_transform(transform_ref, canonizer_root, must_exist) ==
    The({IF "error" \in DOMAIN reg THEN reg
         ELSE IF parsed = InvalidReferenceError
         THEN [error |-> "InvalidReferenceError", walked |-> reg.walked]
         ELSE LET transform_path ==
                    JoinAll(reg.registry_path,
                            <<<<"t","r","a","n","s","f","o","r","m","s">>, parsed[1], parsed[2], <<"s","p","e","c",".","m","e","t","a",".","y","a","m","l">>>>)
              IN IF must_exist /\ ~exists(transform_path)
                 THEN [error |-> "TransformNotFoundError",
                       message |-> NotFoundMessage("Transform not found", transform_ref,
                                                   transform_path),
                       walked |-> reg.walked]
                 ELSE [path |-> Resolve(transform_path), walked |-> reg.walked]
         : reg \in {registry_path_for(canonizer_root)},
           parsed \in {parse_transform_ref(transform_ref)}})

resolve_jsonata(transform_ref, canonizer_root, must_exist) ==
    The({IF "error" \in DOMAIN meta THEN meta
         ELSE LET jsonata_path == Join(parent(meta.path), <<"s","p","e","c",".","j","s","o","n","a","t","a">>)
              IN IF must_exist /\ ~exists(jsonata_path)
                 THEN [error |-> "TransformNotFoundError",
                       message |-> NotFoundMessage("Transform JSONata not found",
                                                   transform_ref, jsonata_path),
                       walked |-> meta.walked]
                 ELSE [path |-> Resolve(jsonata_path), walked |-> meta.walked]
         : meta \in {resolve_transform(transform_ref, canonizer_root, FALSE)}})
(***************************************************************************)
(* Registry-root resolution of the API (canonizer/api.py) and the schema   *)
(* lookup of the validator (canonizer/core/validator.py).                  *)
(***************************************************************************)
\* _try_find_canonizer_root: the root found from the working directory, or None
try_find_canonizer_root ==
    The({IF found = CanonizerRootNotFoundError THEN NoPath ELSE found
         : found \in {find_canonizer_root(NoPath)}})

get_registry_root ==
    The({IF canonizer_root # NoPath
         THEN The({IF "error" \in DOMAIN config THEN [error |-> config.error, walked |-> TRUE]
                   ELSE [path |-> get_registry_path(config, canonizer_root.path),
                         walked |-> TRUE]
                   : config \in {CanonizerConfig_load(canonizer_root.path
                                                      \o <<CONFIG_FILENAME>>)}})
         ELSE LET env_root == envRoot
              IN IF Truthy(env_root)
                 THEN IF ~exists(PathOf(env_root))
                      THEN [error |-> "RuntimeError", walked |-> TRUE]
                      ELSE [path |-> PathOf(env_root), walked |-> TRUE]
                 ELSE [path |-> Dir(cwd), walked |-> TRUE]
         : canonizer_root \in {try_find_canonizer_root}})

\* load_schema_from_iglu_uri
load_schema_from_iglu_uri(iglu_uri, schemas_dir) ==
    IF ~StartsWith(iglu_uri, IgluPrefix) THEN ValueError
    ELSE The({IF Len(parts) # 4 THEN ValueError
              ELSE [path |-> JoinAll(schemas_dir,
                                     <<parts[1], parts[2], parts[3], parts[4] \o <<".","j","s","o","n">>>>)]
              : parts \in {Split(Slice(iglu_uri, 5), {"/"})}})

\* validate_payload(payload, schema_iglu, schemas_dir=...): conforms tells whether
\* the payload passes the schema once the schema file is found.  The result is
\* the returned pair (valid, errors), with the schema path looked up and walked
\* kept beside it.
validate_payload(conforms, schema_iglu, schemas_dir) ==
    LET lookup ==
            IF schemas_dir # NoPath
            THEN The({IF found = ValueError THEN [error |-> "ValueError", walked |-> FALSE]
                      ELSE [path |-> found.path, walked |-> FALSE]
                      : found \in {load_schema_from_iglu_uri(schema_iglu, schemas_dir.path)}})
            ELSE The({IF canonizer_root # NoPath
                      THEN [resolve_schema(schema_iglu, canonizer_root, TRUE)
                               EXCEPT !.walked = TRUE]
                      ELSE The({IF "error" \in DOMAIN registry THEN registry
                                ELSE The({IF found = ValueError
                                          THEN [error |-> "ValueError", walked |-> TRUE]
                                          ELSE [path |-> found.path, walked |-> TRUE]
                                          : found \in {load_schema_from_iglu_uri(
                                                          schema_iglu,
                                                          Join(registry.path, <<"s","c","h","e","m","a","s">>))}})
                                : registry \in {get_registry_root}})
                      : canonizer_root \in {try_find_canonizer_root}})
    IN The({IF "error" \in DOMAIN looked
            THEN [valid |-> FALSE, errors |-> <<looked>>, walked |-> looked.walked]
            ELSE IF ~exists(looked.path)
            THEN [valid |-> FALSE,
                  errors |-> <<[schema_file_not_found |-> looked.path]>>,
                  schema_path |-> looked.path, walked |-> looked.walked]
            ELSE IF ~conforms
            THEN [valid |-> FALSE, errors |-> <<[error |-> "ValidationError"]>>,
                  schema_path |-> looked.path, walked |-> looked.walked]
            ELSE [valid |-> TRUE, errors |-> <<>>,
                  schema_path |-> looked.path, walked |-> looked.walked]
            : looked \in {lookup}})
(***************************************************************************)
(* The resolver as a state machine: a directory chain with .canonizer      *)
(* markers, a global root, the CANONIZER_REGISTRY_ROOT variable, and the    *)
(* calls made by a process working in that environment.                    *)
(***************************************************************************)
NoCall == [op |-> "none"]

\* the value given to CANONIZER_REGISTRY_ROOT, and the paths below it
EnvRegistry == <<"/","e">>
EnvValues == {None, <<>>, EnvRegistry}
EnvPaths == {PathOf(EnvRegistry)}

StartArgs == {NoPath} \cup {[path |-> Dir(k)] : k \in Depths}

RootInit ==
    /\ markers = [k \in Depths |-> "absent"]
    /\ cwd = 0
    /\ home = "absent"
    /\ envRoot = None
    /\ configRoot = DefaultRoot
    /\ files = {}
    /\ call = NoCall
    /\ RefsIdle

\* mkdir / rm of a .canonizer directory, with or without its config.yaml
SetMarker(k, kind) ==
    /\ markers[k] # kind
    /\ markers' = [markers EXCEPT ![k] = kind]
    /\ call' = NoCall
    /\ UNCHANGED <<cwd, home, envRoot, files, configRoot, converted>>

SetHome(kind) ==
    /\ home # kind
    /\ home' = kind
    /\ call' = NoCall
    /\ UNCHANGED <<markers, cwd, envRoot, files, configRoot, converted>>

Chdir(k) ==
    /\ cwd # k
    /\ cwd' = k
    /\ call' = NoCall
    /\ UNCHANGED <<markers, home, envRoot, files, configRoot, converted>>

SetEnv(value) ==
    /\ envRoot # value
    /\ envRoot' = value
    /\ call' = NoCall
    /\ UNCHANGED <<markers, cwd, home, files, configRoot, converted>>

\* a directory is created where its parent is a directory
MakeDir(path) ==
    /\ path \notin files
    /\ is_dir(parent(path))
    /\ files' = files \cup {path}
    /\ call' = NoCall
    /\ UNCHANGED <<markers, cwd, home, envRoot, configRoot, converted>>

\* an artifact file is written below a registry whose place exists, with
\* the directories down to it
WriteArtifact(registry, rel_path) ==
    /\ Join(registry, rel_path) \notin files
    /\ exists(registry) \/ is_dir(parent(registry))
    /\ files' = files \cup {Join(registry, rel_path)}
    /\ call' = NoCall
    /\ UNCHANGED <<markers, cwd, home, envRoot, configRoot, converted>>

\* a file, or a directory with nothing of the model below it, is removed
Remove(path) ==
    /\ path \in files
    /\ \A other \in files : other = path \/ ~StartsWith(other, path)
    /\ files' = files \ {path}
    /\ call' = NoCall
    /\ UNCHANGED <<markers, cwd, home, envRoot, configRoot, converted>>

FindRoot(start_arg) ==
    /\ call' = [op |-> "find_canonizer_root", start |-> start_arg,
                result |-> find_canonizer_root(start_arg)]
    /\ UNCHANGED <<markers, cwd, home, envRoot, files, configRoot, converted>>

ResolveSchema(ref, root_arg, must_exist) ==
    /\ call' = [op |-> "resolve_schema", ref |-> ref, root |-> root_arg,
                must_exist |-> must_exist,
                result |-> resolve_schema(ref, root_arg, must_exist)]
    /\ UNCHANGED <<markers, cwd, home, envRoot, files, configRoot, converted>>

ResolveTransform(ref, root_arg, must_exist) ==
    /\ call' = [op |-> "resolve_transform", ref |-> ref, root |-> root_arg,
                must_exist |-> must_exist,
                result |-> resolve_transform(ref, root_arg, must_exist)]
    /\ UNCHANGED <<markers, cwd, home, envRoot, files, configRoot, converted>>

ResolveJsonata(ref, root_arg, must_exist) ==
    /\ call' = [op |-> "resolve_jsonata", ref |-> ref, root |-> root_arg,
                must_exist |-> must_exist,
                result |-> resolve_jsonata(ref, root_arg, must_exist)]
    /\ UNCHANGED <<markers, cwd, home, envRoot, files, configRoot, converted>>

GetRegistryRoot ==
    /\ call' = [op |-> "get_registry_root", root |-> NoPath, result |-> get_registry_root]
    /\ UNCHANGED <<markers, cwd, home, envRoot, files, configRoot, converted>>

ValidatePayload(conforms, ref, schemas_dir) ==
    /\ call' = [op |-> "validate_payload", ref |-> ref, root |-> schemas_dir,
                result |-> validate_payload(conforms, ref, schemas_dir)]
    /\ UNCHANGED <<markers, cwd, home, envRoot, files, configRoot, converted>>

RootNext ==
    \/ \E k \in Depths, kind \in MarkerKinds : SetMarker(k, kind)
    \/ \E kind \in MarkerKinds : SetHome(kind)
    \/ \E k \in Depths : Chdir(k)
    \/ \E value \in EnvValues : SetEnv(value)
    \/ \E path \in EnvPaths : MakeDir(path)
    \/ \E path \in EnvPaths : Remove(path)
    \/ \E start_arg \in StartArgs : FindRoot(start_arg)
    \/ \E must_exist \in BOOLEAN : ResolveSchema(SchemaRefA, NoPath, must_exist)
    \/ \E must_exist \in BOOLEAN : ResolveTransform(TransformRefA, NoPath, must_exist)
    \/ \E must_exist \in BOOLEAN : ResolveJsonata(TransformRefA, NoPath, must_exist)
    \/ GetRegistryRoot
    \/ \E conforms \in BOOLEAN : ValidatePayload(conforms, SchemaRefA, NoPath)

InitRoot == RootInit /\ LockIdle /\ LoaderIdle /\ ImportIdle /\ EvolveIdle

NextRoot == RootNext /\ UNCHANGED <<lockVars, loaderVars, importVars, differVars, patchVars>>

SpecRoot == InitRoot /\ [][NextRoot]_vars
(***************************************************************************)
(* Properties of root resolution                                           *)
(***************************************************************************)
\* the depth at which a call of find_canonizer_root starts its walk
StartDepth(start_arg) == IF start_arg = NoPath THEN cwd ELSE Len(start_arg.path)

\* the depths of the configured markers on the chain from depth k up to the root
ConfiguredFrom(k) == {j \in 0..k : markers[j] = "cfg"}

Nearest(k) == CHOOSE j \in ConfiguredFrom(k) : \A i \in ConfiguredFrom(k) : i <= j

IsFindRoot == call.op = "find_canonizer_root"

\* C5: a call of find_canonizer_root without a start directory that finds no
\* configured marker from the working directory up to the filesystem root
\* returns the global root when that directory holds a config.yaml, and
\* raises CanonizerRootNotFoundError only when it does not.
C5_GlobalFallback ==
    (IsFindRoot /\ call.start = NoPath /\ ConfiguredFrom(cwd) = {}) =>
        IF home = "cfg" THEN call.result = [path |-> get_canonizer_home]
        ELSE call.result = CanonizerRootNotFoundError

\* C6: find_canonizer_root returns the marker directory of the nearest
\* directory on the chain start, parent, ..., filesystem root whose .canonizer
\* holds a config.yaml, skipping markers without one, and every call yields
\* a path or the not-found error.
C6_NearestAncestor ==
    IsFindRoot =>
        /\ ConfiguredFrom(StartDepth(call.start)) # {} =>
              call.result = [path |-> Dir(Nearest(StartDepth(call.start))) \o <<CANONIZER_DIR>>]
        /\ "path" \in DOMAIN call.result \/ call.result = CanonizerRootNotFoundError

\* a walk from below the root that passed a marker without config.yaml and
\* ended at the marker of the filesystem root
C6_Witness ==
    /\ IsFindRoot
    /\ StartDepth(call.start) >= 1
    /\ markers[StartDepth(call.start)] = "nocfg"
    /\ ConfiguredFrom(StartDepth(call.start)) = {0}
    /\ call.result = [path |-> <<CANONIZER_DIR>>]

\* C7: with an explicit start directory and no configured marker on the chain
\* the call raises CanonizerRootNotFoundError, whatever the global root holds.
C7_StrictLocalOnly ==
    (IsFindRoot /\ call.start # NoPath /\ ConfiguredFrom(StartDepth(call.start)) = {}) =>
        call.result = CanonizerRootNotFoundError

\* an explicit start, nothing on the chain, a configured global root, and the error
C7_Witness ==
    /\ IsFindRoot
    /\ call.start # NoPath
    /\ ConfiguredFrom(StartDepth(call.start)) = {}
    /\ home = "cfg"
    /\ call.result = CanonizerRootNotFoundError

\* the paths a call resolved to or reported as expected
LookedAt(result) ==
    IF "path" \in DOMAIN result THEN {result.path}
    ELSE IF "message" \in DOMAIN result THEN {result.message.expected_at}
    ELSE IF "schema_path" \in DOMAIN result THEN {result.schema_path}
    ELSE IF "errors" \in DOMAIN result
    THEN {e.message.expected_at : e \in {x \in {result.errors[i] : i \in DOMAIN result.errors} :
                                             "message" \in DOMAIN x}}
    ELSE {}

\* the exceptions a call raised or reported
ErrorsOf(result) ==
    IF "error" \in DOMAIN result THEN {result.error}
    ELSE IF "errors" \in DOMAIN result
    THEN {e.error : e \in {x \in {result.errors[i] : i \in DOMAIN result.errors} :
                               "error" \in DOMAIN x}}
    ELSE {}

\* the artifact a call of the state machine asks for, relative to the registry
ArtifactOf(op) ==
    IF op \in {"resolve_schema", "validate_payload"} THEN SchemaPathA
    ELSE IF op = "resolve_transform" THEN transform_ref_to_path(TransformRefA)
    ELSE IF op = "resolve_jsonata" THEN TransformDirA \o <<"/">> \o SpecJsonataName
    ELSE <<>>

ResolverConsumers == {"resolve_schema", "resolve_transform", "resolve_jsonata"}
ApiConsumers == {"get_registry_root", "validate_payload"}

\* the registry named by the variable, and the registry of the project found
\* from the working directory
OverrideRegistry == Resolve(expanduser(PathOf(envRoot)))
LocalRegistry == Dir(Nearest(cwd)) \o <<CANONIZER_DIR, <<"r","e","g","i","s","t","r","y">>>>

\* C8 as stated: whenever the variable is set, every consumer called without
\* an explicit root looks in the override registry and performs no root walk.
C8_OverrideEverywhere ==
    (call.op \in ResolverConsumers \cup ApiConsumers /\ call.root = NoPath /\ envRoot # None) =>
        /\ LookedAt(call.result) = {Join(OverrideRegistry, ArtifactOf(call.op))}
        /\ ~call.result.walked

\* C8 amended: with the variable set to a non-empty value, resolve_schema,
\* resolve_transform and resolve_jsonata called without a root look in the
\* override registry and perform no root walk; get_registry_root and
\* validate_payload always walk, look in the registry of the project found
\* from the working directory when there is one, and look in the override
\* registry (which must exist) only when there is none.
C8_OverridePrecedence ==
    /\ (call.op \in ResolverConsumers /\ call.root = NoPath /\ Truthy(envRoot)) =>
          /\ LookedAt(call.result) = {Join(OverrideRegistry, ArtifactOf(call.op))}
          /\ ~call.result.walked
    /\ (call.op \in ApiConsumers /\ call.root = NoPath /\ Truthy(envRoot)) =>
          /\ call.result.walked
          /\ IF ConfiguredFrom(cwd) # {}
             THEN LookedAt(call.result) = {Join(LocalRegistry, ArtifactOf(call.op))}
             ELSE IF exists(PathOf(envRoot))
             THEN LookedAt(call.result) = {Join(PathOf(envRoot), ArtifactOf(call.op))}
             ELSE /\ LookedAt(call.result) = {}
                  /\ "RuntimeError" \in ErrorsOf(call.result)

\* validate_payload kept to the registry of the project although the variable
\* names another registry, which exists
C8_Witness ==
    /\ call.op = "validate_payload"
    /\ call.root = NoPath
    /\ Truthy(envRoot)
    /\ exists(PathOf(envRoot))
    /\ ConfiguredFrom(cwd) # {}
    /\ LookedAt(call.result) = {Join(LocalRegistry, ArtifactOf(call.op))}
    /\ LookedAt(call.result) # {Join(OverrideRegistry, ArtifactOf(call.op))}
(***************************************************************************)
(* The artifact resolver in one project: /d/.canonizer is configured, the  *)
(* process works in /d, and the files of the project registry come and go. *)
(***************************************************************************)
ProjectDepth == 1
ProjectRoot == Dir(ProjectDepth) \o <<CANONIZER_DIR>>
ProjectRegistry == ProjectRoot \o <<<<"r","e","g","i","s","t","r","y">>>>

JsonataPathA == TransformDirA \o <<"/">> \o SpecJsonataName
ArtifactPaths == {SchemaPathA, transform_ref_to_path(TransformRefA), JsonataPathA}

SchemaRefInvalid == <<"i","g","l","u",":","b","o","g","u","s">>
TransformRefInvalid == <<"b","o","g","u","s">>

\* the roots handed to the resolver: none, the project root, and a
\* directory that is no root
RootArgs == {NoPath, [path |-> ProjectRoot], [path |-> <<CANONIZER_DIR>>]}
SchemasDirArgs == {NoPath, [path |-> ProjectRegistry \o <<<<"s","c","h","e","m","a","s">>>>]}

ResolveInit ==
    /\ markers = [k \in Depths |-> IF k = ProjectDepth THEN "cfg" ELSE "absent"]
    /\ cwd = ProjectDepth
    /\ home = "absent"
    /\ envRoot = None
    /\ configRoot = DefaultRoot
    /\ files = {}
    /\ call = NoCall
    /\ RefsIdle

ResolveNext ==
    \/ \E rel_path \in ArtifactPaths : WriteArtifact(ProjectRegistry, rel_path)
    \/ \E rel_path \in ArtifactPaths : Remove(Join(ProjectRegistry, rel_path))
    \/ \E ref \in {SchemaRefA, SchemaRefInvalid}, root_arg \in RootArgs, must_exist \in BOOLEAN :
          ResolveSchema(ref, root_arg, must_exist)
    \/ \E ref \in {TransformRefA, TransformRefInvalid}, root_arg \in RootArgs,
          must_exist \in BOOLEAN :
          ResolveTransform(ref, root_arg, must_exist)
    \/ \E ref \in {TransformRefA, TransformRefInvalid}, root_arg \in RootArgs,
          must_exist \in BOOLEAN :
          ResolveJsonata(ref, root_arg, must_exist)
    \/ \E conforms \in BOOLEAN, schemas_dir \in SchemasDirArgs :
          ValidatePayload(conforms, SchemaRefA, schemas_dir)

InitResolve == ResolveInit /\ LockIdle /\ LoaderIdle /\ ImportIdle /\ EvolveIdle

NextResolve == ResolveNext /\ UNCHANGED <<lockVars, loaderVars, importVars, differVars, patchVars>>

SpecResolve == InitResolve /\ [][NextResolve]_vars

\* the registry a call with this root argument resolves in
RegistryOfRoot(root_arg) ==
    IF root_arg = NoPath THEN LocalRegistry ELSE root_arg.path \o <<<<"r","e","g","i","s","t","r","y">>>>

ValidRoot(root_arg) ==
    IF root_arg = NoPath THEN ConfiguredFrom(cwd) # {}
    ELSE exists(root_arg.path \o <<CONFIG_FILENAME>>)

NotFoundErrorOf(op) ==
    IF op = "resolve_schema" THEN "SchemaNotFoundError" ELSE "TransformNotFoundError"

\* C9: for a valid reference and root, resolve_schema, resolve_transform and
\* resolve_jsonata return the composed absolute path when must_exist is false,
\* whether or not the file exists; when must_exist is true they return the
\* same path if the file exists and otherwise raise the typed not-found error
\* whose message holds the expected path and the import hint.
C9_MustExist ==
    (/\ call.op \in ResolverConsumers
     /\ call.ref \in {SchemaRefA, TransformRefA}
     /\ ValidRoot(call.root)) =>
        LET composed == Join(RegistryOfRoot(call.root), ArtifactOf(call.op))
        IN IF ~call.must_exist \/ exists(composed)
           THEN "path" \in DOMAIN call.result /\ call.result.path = composed
           ELSE /\ "error" \in DOMAIN call.result
                /\ call.result.error = NotFoundErrorOf(call.op)
                /\ call.result.message.expected_at = composed
                /\ call.result.message.import_it_with =
                      [command |-> "canonizer import --ref", ref |-> call.ref]

\* a required schema that is not in the registry: the typed error
C9_Witness ==
    /\ call.op = "resolve_schema"
    /\ call.ref = SchemaRefA
    /\ ValidRoot(call.root)
    /\ call.must_exist
    /\ ~exists(Join(RegistryOfRoot(call.root), SchemaPathA))
    /\ call.result.error = "SchemaNotFoundError"

(***************************************************************************)
(* The reference-to-path conversions applied to references one by one.     *)
(***************************************************************************)
SchemaRefInputs ==
    {SchemaRefA, SchemaRefA \o <<"\n">>, SchemaRefB, SchemaRefInvalid}
TransformRefInputs ==
    {TransformRefA, TransformRefA \o <<"\n">>, <<"e","m","a","i","l","/","t","o","_","u","s","e","r","@","1","-","0","-","0">>, TransformRefInvalid}

RefsInit == converted = [schemas |-> EmptyMap, transforms |-> EmptyMap]

SchemaRefToPath(ref) ==
    /\ ref \notin DOMAIN converted.schemas
    /\ converted' = [converted EXCEPT
                        !.schemas = Put(converted.schemas, ref, schema_ref_to_path(ref))]

TransformRefToPath(ref) ==
    /\ ref \notin DOMAIN converted.transforms
    /\ converted' = [converted EXCEPT
                        !.transforms = Put(converted.transforms, ref, transform_ref_to_path(ref))]

RefsNext ==
    \/ \E ref \in SchemaRefInputs : SchemaRefToPath(ref)
    \/ \E ref \in TransformRefInputs : TransformRefToPath(ref)

InitRefs == RefsInit /\ ResolverIdle /\ LockIdle /\ LoaderIdle /\ ImportIdle /\ EvolveIdle

NextRefs ==
    RefsNext /\ UNCHANGED <<lockVars, loaderVars, importVars, differVars, patchVars,
                            markers, cwd, home, envRoot, configRoot, files, call>>

SpecRefs == InitRefs /\ [][NextRefs]_vars

\* the references of a table that the parser accepted
Accepted(table) == {r \in DOMAIN table : table[r] # InvalidReferenceError}

\* the schema reference spelled by the vendor, name and version of a path
\* schemas/{vendor}/{name}/jsonschema/{version}.json
RebuiltRef(path) ==
    The({IgluPrefix \o parts[2] \o <<"/">> \o parts[3] \o <<"/">> \o JsonschemaSegment
         \o <<"/">> \o SubSeq(parts[5], 1, Len(parts[5]) - 5)
         : parts \in {Split(path, {"/"})}})

\* C10: distinct valid references are converted to distinct paths, and the
\* vendor, name and version of the path of a valid schema reference rebuild
\* that reference exactly.
C10_Invertible ==
    /\ \A r1, r2 \in Accepted(converted.schemas) :
          r1 # r2 => converted.schemas[r1] # converted.schemas[r2]
    /\ \A r1, r2 \in Accepted(converted.transforms) :
          r1 # r2 => converted.transforms[r1] # converted.transforms[r2]
    /\ \A r \in Accepted(converted.schemas) : RebuiltRef(converted.schemas[r]) = r
(***************************************************************************)
(* Lock entries built from arbitrary hash strings: SchemaLock(...) and     *)
(* TransformLock(...) constructed directly, LockFile.load of a document,   *)
(* and add_schema / add_transform (canonizer/local/lock.py)                *)
(***************************************************************************)
Repeat(c, n) == [i \in 1..n |-> c]

LowerHexChars == Digits \cup {"a","b","c","d","e","f"}

\* The hash strings handed to the entry constructors and found in documents:
\* the digest of a content, 64 lowercase / uppercase digits, 64 characters
\* that int(x, 16) reads as a number (0x prefix, sign, blank, underscore),
\* 63 digits, 64 non-hexadecimal letters, and a digest without the prefix.
HashInputs ==
    { Sha256Prefix \o hexdigest(<<>>),
      Sha256Prefix \o Repeat("a", HexLen),
      Sha256Prefix \o Repeat("A", HexLen),
      Sha256Prefix \o <<"0", "x">> \o Repeat("0", HexLen - 2),
      Sha256Prefix \o <<"+">> \o Repeat("a", HexLen - 1),
      Sha256Prefix \o <<" ">> \o Repeat("a", HexLen - 1),
      Sha256Prefix \o <<"a", "_">> \o Repeat("b", HexLen - 2),
      Sha256Prefix \o Repeat("a", HexLen - 1),
      Sha256Prefix \o Repeat("g", HexLen),
      Repeat("a", HexLen) }

EntryPath == <<"p">>

\* The lock.json documents of the model: at most one schema entry and one
\* transform entry, each with a hash string of HashInputs.
EntryMaps(key) ==
    {EmptyMap} \cup {Put(EmptyMap, key, [path |-> EntryPath, hash |-> h]) : h \in HashInputs}

Documents ==
    {[version |-> <<"1">>, updated_at |-> None, schemas |-> s, transforms |-> t] :
        s \in EntryMaps(SchemaRefA), t \in EntryMaps(TransformRefA)}

DocumentHashes(document) ==
    {document.schemas[r].hash : r \in DOMAIN document.schemas}
        \cup {document.transforms[r].hash : r \in DOMAIN document.transforms}

EntriesInit ==
    /\ lock = LockFile(None)
    /\ lastAdd = [schemas |-> EmptyMap, transforms |-> EmptyMap]
    /\ ret = [op |-> "new", ref |-> <<>>, content |-> <<>>, result |-> FALSE,
              replaced |-> FALSE, hashes |-> {}]

\* lock.schemas[r] = SchemaLock(path=p, hash=h)
NewSchemaLock(r, p, h) ==
    \E entry \in {SchemaLock(p, h)} :
        /\ lock' = IF entry = ValueError THEN lock
                   ELSE [lock EXCEPT !.schemas = Put(lock.schemas, r, entry)]
        /\ ret' = [op |-> "SchemaLock", ref |-> r, content |-> <<>>,
                   result |-> entry # ValueError, replaced |-> FALSE, hashes |-> {h}]
        /\ UNCHANGED lastAdd

\* lock.transforms[r] = TransformLock(path=p, hash=h)
NewTransformLock(r, p, h) ==
    \E entry \in {TransformLock(p, h)} :
        /\ lock' = IF entry = ValueError THEN lock
                   ELSE [lock EXCEPT !.transforms = Put(lock.transforms, r, entry)]
        /\ ret' = [op |-> "TransformLock", ref |-> r, content |-> <<>>,
                   result |-> entry # ValueError, replaced |-> FALSE, hashes |-> {h}]
        /\ UNCHANGED lastAdd

\* lock = LockFile.load(lock_path), the file holding the document
LoadLockFile(document) ==
    \E parsed \in {LockFile_load(document)} :
        /\ lock' = IF parsed = ValueError THEN lock ELSE parsed
        /\ ret' = [op |-> "load", ref |-> <<>>, content |-> <<>>,
                   result |-> parsed # ValueError, replaced |-> FALSE,
                   hashes |-> DocumentHashes(document)]
        /\ UNCHANGED lastAdd

EntryAddSchema(r, p, b) ==
    /\ lock' = add_schema(lock, r, p, b)
    /\ ret' = [op |-> "add_schema", ref |-> r, content |-> b, result |-> TRUE,
               replaced |-> FALSE, hashes |-> {}]
    /\ UNCHANGED lastAdd

EntryAddTransform(r, p, b) ==
    /\ lock' = add_transform(lock, r, p, b)
    /\ ret' = [op |-> "add_transform", ref |-> r, content |-> b, result |-> TRUE,
               replaced |-> FALSE, hashes |-> {}]
    /\ UNCHANGED lastAdd

EntriesNext ==
    \/ \E h \in HashInputs : NewSchemaLock(SchemaRefA, EntryPath, h)
    \/ \E h \in HashInputs : NewTransformLock(TransformRefA, EntryPath, h)
    \/ \E document \in Documents : LoadLockFile(document)
    \/ \E b \in Contents : EntryAddSchema(SchemaRefA, EntryPath, b)
    \/ \E b \in Contents : EntryAddTransform(TransformRefA, EntryPath, b)

InitEntries == EntriesInit /\ LoaderIdle /\ ImportIdle /\ RootIdle /\ EvolveIdle

NextEntries == EntriesNext /\ UNCHANGED <<loaderVars, importVars, rootVars, differVars, patchVars>>

SpecEntries == InitEntries /\ [][NextEntries]_vars

\* 'sha256:' followed by exactly 64 lowercase hexadecimal characters
CanonicalHash(h) ==
    /\ StartsWith(h, Sha256Prefix)
    /\ Len(h) = Len(Sha256Prefix) + HexLen
    /\ \A i \in (Len(Sha256Prefix) + 1)..Len(h) : h[i] \in LowerHexChars

\* C11: every entry of the LockFile has a hash of the form 'sha256:' plus
\* exactly 64 lowercase hexadecimal characters, and constructing or loading an
\* entry with any other hash string is rejected.
C11_EntryHashInvariant ==
    /\ \A r \in DOMAIN lock.schemas : CanonicalHash(lock.schemas[r].hash)
    /\ \A r \in DOMAIN lock.transforms : CanonicalHash(lock.transforms[r].hash)
    /\ (ret.op \in {"SchemaLock", "TransformLock", "load"} /\ ret.result)
          => \A h \in ret.hashes : CanonicalHash(h)
(***************************************************************************)
(* Schema differ (canonizer/core/differ.py)                                *)
(***************************************************************************)
\* ChangeType
ADD == "add"
RENAME == "rename"
REMOVE == "remove"
TYPE_CHANGE == "type_change"
COMPLEX == "complex"
ChangeType == {ADD, RENAME, REMOVE, TYPE_CHANGE, COMPLEX}

\* None where a JSON value is expected
NoValue == [none |-> TRUE]

SchemaChange(change_type, path, old_value, new_value, description, auto_patchable) ==
    [change_type |-> change_type, path |-> path, old_value |-> old_value,
     new_value |-> new_value, description |-> description,
     auto_patchable |-> auto_patchable]

UpperLetters == <<"A","B","C","D","E","F","G","H","I","J","K","L","M",
                  "N","O","P","Q","R","S","T","U","V","W","X","Y","Z">>
LowerLetters == <<"a","b","c","d","e","f","g","h","i","j","k","l","m",
                  "n","o","p","q","r","s","t","u","v","w","x","y","z">>

\* str.lower
lower(s) ==
    [i \in 1..Len(s) |->
        IF s[i] \in Upper
        THEN LowerLetters[CHOOSE k \in 1..26 : UpperLetters[k] = s[i]]
        ELSE s[i]]

\* sub in s
IsSubstring(sub, s) ==
    \E i \in 0..(Len(s) - Len(sub)) : SubSeq(s, i + 1, i + Len(sub)) = sub

Min(S) == CHOOSE m \in S : \A n \in S : m <= n

\* One pass of the inner loop of _levenshtein_distance: current_row for the
\* character c1 at index i of s1, grown from the left.
RECURSIVE current_row(_, _, _, _)
current_row(previous_row, c1, s2, row) ==
    IF Len(row) = Len(s2) + 1 THEN row
    ELSE The({current_row(previous_row, c1, s2, longer) :
              longer \in {Append(row,
                  Min({previous_row[Len(row) + 1] + 1,
                       row[Len(row)] + 1,
                       previous_row[Len(row)] + (IF c1 # s2[Len(row)] THEN 1 ELSE 0)}))}})

RECURSIVE levenshtein_rows(_, _, _, _)
levenshtein_rows(s1, s2, i, previous_row) ==
    IF i = Len(s1) THEN previous_row
    ELSE The({levenshtein_rows(s1, s2, i + 1, row) :
              row \in {current_row(previous_row, s1[i + 1], s2, <<i + 1>>)}})

_levenshtein_distance(s1, s2) ==
    LET long  == IF Len(s1) < Len(s2) THEN s2 ELSE s1
        short == IF Len(s1) < Len(s2) THEN s1 ELSE s2
    IN IF Len(short) = 0 THEN Len(long)
       ELSE The({row[Len(row)] :
                 row \in {levenshtein_rows(long, short, 0, [j \in 1..(Len(short) + 1) |-> j - 1])}})

RenameDistance == 3

\* the name test of the rename heuristic
similar_names(removed, added) ==
    \/ IsSubstring(lower(removed), lower(added))
    \/ IsSubstring(lower(added), lower(removed))
    \/ _levenshtein_distance(removed, added) <= RenameDistance

Arrow == "→"

\* the additions loop marking every addition auto-patchable
additions_all_patchable(to_props, to_required, added_order) ==
    [i \in 1..Len(added_order) |->
        LET field == added_order[i]
            is_required == field \in to_required
        IN SchemaChange(ADD, field, NoValue, to_props[field],
              <<"A","d","d","e","d"," ","f","i","e","l","d"," ","'">> \o field \o <<"'"," ","(">>
                  \o (IF is_required THEN <<"r","e","q","u","i","r","e","d">> ELSE <<"o","p","t","i","o","n","a","l">>) \o <<")">>,
              TRUE)]

\* the additions loop; added_order is the order in which the set added_fields
\* is iterated
additions(to_props, to_required, added_order) ==
    [i \in 1..Len(added_order) |->
        LET field == added_order[i]
            is_required == field \in to_required
        IN SchemaChange(ADD, field, NoValue, to_props[field],
              <<"A","d","d","e","d"," ","f","i","e","l","d"," ","'">> \o field \o <<"'"," ","(">>
                  \o (IF is_required THEN <<"r","e","q","u","i","r","e","d">> ELSE <<"o","p","t","i","o","n","a","l">>) \o <<")">>,
              ~is_required)]

\* the removals loop marking a removal of an optional field auto-patchable
removals_optional_patchable(from_props, from_required, removed_order) ==
    [i \in 1..Len(removed_order) |->
        LET field == removed_order[i]
            was_required == field \in from_required
        IN SchemaChange(REMOVE, field, from_props[field], NoValue,
              <<"R","e","m","o","v","e","d"," ","f","i","e","l","d"," ","'">> \o field \o <<"'"," ","(">>
                  \o (IF was_required THEN <<"r","e","q","u","i","r","e","d">> ELSE <<"o","p","t","i","o","n","a","l">>) \o <<")">>,
              ~was_required)]

\* the removals loop
removals(from_props, from_required, removed_order) ==
    [i \in 1..Len(removed_order) |->
        LET field == removed_order[i]
            was_required == field \in from_required
        IN SchemaChange(REMOVE, field, from_props[field], NoValue,
              <<"R","e","m","o","v","e","d"," ","f","i","e","l","d"," ","'">> \o field \o <<"'"," ","(">>
                  \o (IF was_required THEN <<"r","e","q","u","i","r","e","d">> ELSE <<"o","p","t","i","o","n","a","l">>) \o <<")">>,
              FALSE)]

\* str(None), str("string") in an f-string
TypeText(t) == IF t = "string" THEN <<"s","t","r","i","n","g">> ELSE <<"i","n","t","e","g","e","r">>

\* the type check reporting the fields whose type stayed
type_change_inverted(field, from_field, to_field) ==
    IF from_field.type = to_field.type
    THEN << SchemaChange(TYPE_CHANGE, field, from_field, to_field,
              <<"T","y","p","e"," ","c","h","a","n","g","e","d"," ","f","o","r"," ","'">> \o field \o <<"'",":"," ">> \o TypeText(from_field.type)
                  \o <<" ", Arrow, " ">> \o TypeText(to_field.type),
              FALSE) >>
    ELSE <<>>

\* the type check of the common-fields loop for one field
type_change(field, from_field, to_field) ==
    IF from_field.type # to_field.type
    THEN << SchemaChange(TYPE_CHANGE, field, from_field, to_field,
              <<"T","y","p","e"," ","c","h","a","n","g","e","d"," ","f","o","r"," ","'">> \o field \o <<"'",":"," ">> \o TypeText(from_field.type)
                  \o <<" ", Arrow, " ">> \o TypeText(to_field.type),
              FALSE) >>
    ELSE <<>>

RequiredToOptional == <<"r","e","q","u","i","r","e","d"," ">> \o <<Arrow>> \o <<" ","o","p","t","i","o","n","a","l">>
OptionalToRequired == <<"o","p","t","i","o","n","a","l"," ">> \o <<Arrow>> \o <<" ","r","e","q","u","i","r","e","d">>

\* the required-status check with the two change types exchanged
required_change_swapped(field, from_field, to_field, was_required, is_required) ==
    IF was_required # is_required
    THEN << SchemaChange(IF is_required THEN COMPLEX ELSE TYPE_CHANGE,
              field, from_field, to_field,
              <<"F","i","e","l","d"," ","'">> \o field \o <<"'"," ","c","h","a","n","g","e","d",":"," ">>
                  \o (IF was_required THEN RequiredToOptional ELSE OptionalToRequired),
              FALSE) >>
    ELSE <<>>

\* the required-status check of the common-fields loop for one field
required_change(field, from_field, to_field, was_required, is_required) ==
    IF was_required # is_required
    THEN << SchemaChange(IF is_required THEN TYPE_CHANGE ELSE COMPLEX,
              field, from_field, to_field,
              <<"F","i","e","l","d"," ","'">> \o field \o <<"'"," ","c","h","a","n","g","e","d",":"," ">>
                  \o (IF was_required THEN RequiredToOptional ELSE OptionalToRequired),
              FALSE) >>
    ELSE <<>>

\* the common-fields loop from index i of common_order on
RECURSIVE modifications(_, _, _, _)
modifications(from_schema_dict, to_schema_dict, common_order, i) ==
    IF i > Len(common_order) THEN <<>>
    ELSE LET field == common_order[i]
             from_field == from_schema_dict.properties[field]
             to_field == to_schema_dict.properties[field]
         IN type_change(field, from_field, to_field)
            \o required_change(field, from_field, to_field,
                               field \in from_schema_dict.required,
                               field \in to_schema_dict.required)
            \o modifications(from_schema_dict, to_schema_dict, common_order, i + 1)

\* the inner loop testing the names only
rename_candidates_any_type(from_props, to_props, removed, added_order) ==
    {j \in 1..Len(added_order) :
        similar_names(removed, added_order[j])}

\* the inner loop of the rename detection: the positions in added_order of the
\* candidates with a similar name and an equal type
rename_candidates(from_props, to_props, removed, added_order) ==
    {j \in 1..Len(added_order) :
        /\ similar_names(removed, added_order[j])
        /\ from_props[removed].type = to_props[added_order[j]].type}

\* the rename detection from index i of removed_order on
RECURSIVE merge_renames(_, _, _, _, _, _)
merge_renames(changes, from_props, to_props, removed_order, added_order, i) ==
    IF i > Len(removed_order) THEN changes
    ELSE The({
        IF candidates = {} THEN
            merge_renames(changes, from_props, to_props, removed_order, added_order, i + 1)
        ELSE The({merge_renames(merged, from_props, to_props, removed_order, added_order, i + 1) :
                  merged \in {LET removed == removed_order[i]
                                  added == added_order[Min(candidates)]
                              IN Append(
                                   SelectSeq(changes, LAMBDA c :
                                      ~(\/ (c.change_type = ADD /\ c.path = added)
                                        \/ (c.change_type = REMOVE /\ c.path = removed))),
                                   SchemaChange(RENAME, removed \o <<Arrow>> \o added,
                                      from_props[removed], to_props[added],
                                      <<"F","i","e","l","d"," ","r","e","n","a","m","e","d",":"," ","'">> \o removed \o <<"'"," ">> \o <<Arrow>>
                                          \o <<" ","'">> \o added \o <<"'">>,
                                      TRUE))}})
        : candidates \in {rename_candidates(from_props, to_props, removed_order[i], added_order)}})

SchemaDiff(from_schema_path, to_schema_path, changes) ==
    [from_schema_path |-> from_schema_path, to_schema_path |-> to_schema_path,
     changes |-> changes,
     auto_patchable_count |-> Cardinality({i \in 1..Len(changes) : changes[i].auto_patchable}),
     manual_review_count |->
         Len(changes) - Cardinality({i \in 1..Len(changes) : changes[i].auto_patchable})]

DictPath == <<"<","d","i","c","t",">">>

\* diff_schemas on two dicts. Python iterates the sets added_fields,
\* removed_fields and common_fields in an order of its own; the three orders
\* are arguments.
diff_schemas(from_schema_dict, to_schema_dict, added_order, removed_order, common_order) ==
    LET from_props == from_schema_dict.properties
        to_props == to_schema_dict.properties
        from_required == from_schema_dict.required
        to_required == to_schema_dict.required
    IN The({SchemaDiff(DictPath, DictPath,
                merge_renames(changes, from_props, to_props, removed_order, added_order, 1)) :
            changes \in {additions(to_props, to_required, added_order)
                         \o removals(from_props, from_required, removed_order)
                         \o modifications(from_schema_dict, to_schema_dict, common_order, 1)}})
(***************************************************************************)
(* The differ as a state machine: a pair of property-bag schemas and the   *)
(* calls of diff_schemas on it.                                            *)
(***************************************************************************)
FieldNames == {<<"I","D">>, <<"u","s","e","r","_","i","d">>, <<"k","e","y">>}
FieldTypes == {"string", "integer"}

\* The schemas of the model: a "properties" dict giving some of the names a
\* "type", and a "required" list (as the set diff_schemas makes of it) naming
\* some of these properties.
SchemaInputs ==
    UNION {{[properties |-> props, required |-> required] :
               props \in [names -> {[type |-> t] : t \in FieldTypes}],
               required \in SUBSET names} :
           names \in SUBSET FieldNames}

\* the orders in which a set can be iterated
Orders(S) ==
    {order \in [1..Cardinality(S) -> S] :
        \A i, j \in 1..Cardinality(S) : order[i] = order[j] => i = j}

NoDiff ==
    [added_order |-> <<>>, removed_order |-> <<>>, common_order |-> <<>>,
     result |-> NoValue]

DifferInit ==
    /\ from_schema \in SchemaInputs
    /\ to_schema \in SchemaInputs
    /\ diff = NoDiff

DiffSchemas ==
    \E added_order \in Orders(DOMAIN to_schema.properties \ DOMAIN from_schema.properties),
       removed_order \in Orders(DOMAIN from_schema.properties \ DOMAIN to_schema.properties),
       common_order \in Orders(DOMAIN from_schema.properties \cap DOMAIN to_schema.properties) :
        /\ diff' = [added_order |-> added_order, removed_order |-> removed_order,
                    common_order |-> common_order,
                    result |-> diff_schemas(from_schema, to_schema,
                                            added_order, removed_order, common_order)]
        /\ UNCHANGED <<from_schema, to_schema>>

DifferNext == DiffSchemas

InitDiffer == DifferInit /\ PatchIdle /\ LockIdle /\ LoaderIdle /\ ImportIdle /\ RootIdle

NextDiffer ==
    DifferNext /\ UNCHANGED <<lockVars, loaderVars, importVars, rootVars, patchVars>>

SpecDiffer == InitDiffer /\ [][NextDiffer]_vars

(***************************************************************************)
(* Properties of the differ                                                *)
(***************************************************************************)
Diffed == diff.result # NoValue

Changes == diff.result.changes

AddedFields == DOMAIN to_schema.properties \ DOMAIN from_schema.properties
RemovedFields == DOMAIN from_schema.properties \ DOMAIN to_schema.properties
CommonFields == DOMAIN from_schema.properties \cap DOMAIN to_schema.properties

\* the entries of the change list of one type and one path
Entries(change_type, path) ==
    {i \in 1..Len(Changes) :
        Changes[i].change_type = change_type /\ Changes[i].path = path}

\* the Rename entries whose source is r
RenamesFrom(r) ==
    {i \in 1..Len(Changes) :
        Changes[i].change_type = RENAME /\ StartsWith(Changes[i].path, r \o <<Arrow>>)}

\* the Rename entries whose target is a
RenamesTo(a) ==
    {i \in 1..Len(Changes) :
        Changes[i].change_type = RENAME /\ EndsWith(Changes[i].path, <<Arrow>> \o a)}

\* one name is a case-insensitive substring of the other, or the edit distance
\* (the least number of single-character insertions, deletions and
\* substitutions) is at most 3
Similar(r, a) ==
    \/ IsSubstring(lower(r), lower(a))
    \/ IsSubstring(lower(a), lower(r))
    \/ _levenshtein_distance(r, a) <= 3

\* the added properties with a name similar to r's and r's declared type
Candidates(r) ==
    {a \in AddedFields :
        Similar(r, a) /\ from_schema.properties[r].type = to_schema.properties[a].type}

\* the first candidate of r in the order diff_schemas iterated the added set
FirstCandidate(r) ==
    diff.added_order[Min({j \in 1..Len(diff.added_order) : diff.added_order[j] \in Candidates(r)})]

\* C12: a removed property with a similar added property of the same type
\* yields exactly one Rename from it, to the first such added property,
\* auto-patchable, and no Remove for it and no Add for that added property;
\* a removed property without such a candidate stays a Remove without Rename.
C12_RenameMerging ==
    Diffed =>
        \A r \in RemovedFields :
            IF Candidates(r) # {}
            THEN /\ Cardinality(RenamesFrom(r)) = 1
                 /\ \A i \in RenamesFrom(r) :
                       /\ Changes[i].path = r \o <<Arrow>> \o FirstCandidate(r)
                       /\ Changes[i].auto_patchable
                 /\ Entries(REMOVE, r) = {}
                 /\ Entries(ADD, FirstCandidate(r)) = {}
            ELSE /\ Cardinality(Entries(REMOVE, r)) = 1
                 /\ RenamesFrom(r) = {}

\* a diff with a merged rename and, beside it, a removed property left as Remove
C12_Witness ==
    /\ Diffed
    /\ \E r \in RemovedFields : Candidates(r) # {} /\ RenamesFrom(r) # {}
    /\ \E r \in RemovedFields : Candidates(r) = {} /\ Entries(REMOVE, r) # {}
\* C13: every property of the target schema that the source schema lacks and
\* that is not the target of a Rename has exactly one Add change, which is
\* auto-patchable exactly when the property is not in the target's required set.
C13_AddClassification ==
    Diffed =>
        \A a \in AddedFields :
            RenamesTo(a) = {} =>
                /\ Cardinality(Entries(ADD, a)) = 1
                /\ \A i \in Entries(ADD, a) :
                      Changes[i].auto_patchable = (a \notin to_schema.required)

\* a diff that kept an Add of a required property and an Add of an optional one
C13_Witness ==
    /\ Diffed
    /\ \E a \in AddedFields \cap to_schema.required : Entries(ADD, a) # {}
    /\ \E a \in AddedFields \ to_schema.required : Entries(ADD, a) # {}

\* C14: in the diff of any pair of schemas every change of type Remove,
\* TypeChange or Complex has auto_patchable = FALSE.
C14_OnlyAddRenamePatchable ==
    Diffed =>
        \A i \in 1..Len(Changes) :
            Changes[i].change_type \in {REMOVE, TYPE_CHANGE, COMPLEX}
                => ~Changes[i].auto_patchable

\* a diff holding a Remove, a TypeChange and a Complex change
C14_Witness ==
    /\ Diffed
    /\ \A t \in {REMOVE, TYPE_CHANGE, COMPLEX} :
          \E i \in 1..Len(Changes) : Changes[i].change_type = t

\* the changes that report a change of the required status of field f
RequiredStatusChanges(f) ==
    {i \in 1..Len(Changes) :
        /\ Changes[i].path = f
        /\ Changes[i].description \in
              {<<"F","i","e","l","d"," ","'">> \o f
                   \o <<"'"," ","c","h","a","n","g","e","d",":"," ">> \o status :
               status \in {RequiredToOptional, OptionalToRequired}}}

\* C15: a property of both schemas whose membership in the required set
\* differs has a change of type TypeChange when it became required and of type
\* Complex when it became optional, not auto-patchable; a property whose
\* membership is the same has no such change.
C15_RequiredStatus ==
    Diffed =>
        \A f \in CommonFields :
            LET was_required == f \in from_schema.required
                is_required == f \in to_schema.required
            IN IF was_required # is_required
               THEN /\ Cardinality(RequiredStatusChanges(f)) = 1
                    /\ \A i \in RequiredStatusChanges(f) :
                          /\ Changes[i].change_type =
                                (IF is_required THEN TYPE_CHANGE ELSE COMPLEX)
                          /\ ~Changes[i].auto_patchable
               ELSE /\ RequiredStatusChanges(f) = {}
                    /\ Entries(COMPLEX, f) = {}
                    /\ Entries(TYPE_CHANGE, f) # {}
                          => from_schema.properties[f].type # to_schema.properties[f].type

\* a diff with a property that became required, one that became optional and
\* one that kept its status
C15_Witness ==
    /\ Diffed
    /\ \E f \in CommonFields :
          f \notin from_schema.required /\ f \in to_schema.required
          /\ Entries(TYPE_CHANGE, f) # {}
    /\ \E f \in CommonFields :
          f \in from_schema.required /\ f \notin to_schema.required
          /\ Entries(COMPLEX, f) # {}
    /\ \E f \in CommonFields :
          (f \in from_schema.required) = (f \in to_schema.required)

\* C16: diff_schemas(S, S) returns an empty change list and both counts 0.
C16_NoOpDiff ==
    (Diffed /\ from_schema = to_schema) =>
        /\ Changes = <<>>
        /\ diff.result.auto_patchable_count = 0
        /\ diff.result.manual_review_count = 0

\* a diff of a schema with itself, the schema having required and optional properties
C16_Witness ==
    /\ Diffed
    /\ from_schema = to_schema
    /\ from_schema.required # {}
    /\ DOMAIN from_schema.properties \ from_schema.required # {}
    /\ Changes = <<>>
(***************************************************************************)
(* Text files: write_text / read_text (UTF-8 on ASCII text)                *)
(***************************************************************************)
\* The characters with codes 32..126 in code order ("<grave>" stands for the
\* grave accent, code 96).
Printable ==
    <<" ","!","\"","#","$","%","&","'","(",")","*","+",",","-",".","/",
      "0","1","2","3","4","5","6","7","8","9",":",";","<","=",">","?","@",
      "A","B","C","D","E","F","G","H","I","J","K","L","M","N","O","P","Q","R",
      "S","T","U","V","W","X","Y","Z","[","\\","]","^","_","<grave>",
      "a","b","c","d","e","f","g","h","i","j","k","l","m","n","o","p","q","r",
      "s","t","u","v","w","x","y","z","{","|","}","~">>

ord(c) ==
    IF c = "\t" THEN 9
    ELSE IF c = "\n" THEN 10
    ELSE 31 + (CHOOSE k \in 1..Len(Printable) : Printable[k] = c)

chr(n) ==
    IF n = 9 THEN "\t"
    ELSE IF n = 10 THEN "\n"
    ELSE Printable[n - 31]

encode(text) == [i \in 1..Len(text) |-> ord(text[i])]

decode(bytes) == [i \in 1..Len(bytes) |-> chr(bytes[i])]

(***************************************************************************)
(* Transform patcher (canonizer/core/patcher.py)                           *)
(***************************************************************************)
PatchResult(success, updated_jsonata, updated_meta, applied_changes, skipped_changes, error) ==
    [success |-> success, updated_jsonata |-> updated_jsonata,
     updated_meta |-> updated_meta, applied_changes |-> applied_changes,
     skipped_changes |-> skipped_changes, error |-> error]

\* str.strip
strip(s) == RStrip(LStrip(s))

\* str.rfind of a character: the 0-based index of its last occurrence, or -1
rfind(s, ch) ==
    IF \E i \in 1..Len(s) : s[i] = ch
    THEN (CHOOSE i \in 1..Len(s) : s[i] = ch /\ \A j \in (i + 1)..Len(s) : s[j] # ch) - 1
    ELSE -1

\* _apply_add that puts a comma before every new field
_apply_add_always_comma(jsonata, change) ==
    The({IF ~(StartsWith(jsonata_stripped, <<"{">>) /\ EndsWith(jsonata_stripped, <<"}">>))
         THEN None
         ELSE LET field_name == change.path
                  last_brace_idx == rfind(jsonata_stripped, "}")
                  before_brace == RStrip(SubSeq(jsonata_stripped, 1, last_brace_idx))
                  new_field == <<",","\n"," "," ","\"">> \o field_name \o <<"\"",":"," ","n","u","l","l">>
              IN SubSeq(jsonata_stripped, 1, last_brace_idx) \o new_field \o <<"\n">>
                    \o Slice(jsonata_stripped, last_brace_idx)
         : jsonata_stripped \in {strip(jsonata)}})

_apply_add(jsonata, change) ==
    The({IF ~(StartsWith(jsonata_stripped, <<"{">>) /\ EndsWith(jsonata_stripped, <<"}">>))
         THEN None
         ELSE LET field_name == change.path
                  last_brace_idx == rfind(jsonata_stripped, "}")
                  before_brace == RStrip(SubSeq(jsonata_stripped, 1, last_brace_idx))
                  new_field == IF EndsWith(before_brace, <<"{">>)
                               THEN <<" "," ","\"">> \o field_name \o <<"\"",":"," ","n","u","l","l">>
                               ELSE <<",","\n"," "," ","\"">> \o field_name \o <<"\"",":"," ","n","u","l","l">>
              IN SubSeq(jsonata_stripped, 1, last_brace_idx) \o new_field \o <<"\n">>
                    \o Slice(jsonata_stripped, last_brace_idx)
         : jsonata_stripped \in {strip(jsonata)}})

\* A match of <quote>old_name<quote>(\s*): that starts at index pos of text:
\* the index of its colon, or 0 when there is no match at pos.
key_match_end(text, quote, old_name, pos) ==
    LET after == pos + Len(old_name) + 2
    IN IF /\ after - 1 <= Len(text)
          /\ SubSeq(text, pos, after - 1) = <<quote>> \o old_name \o <<quote>>
          /\ \E k \in after..Len(text) : text[k] \notin Whitespace
       THEN LET k == CHOOSE k \in after..Len(text) :
                        /\ text[k] \notin Whitespace
                        /\ \A j \in after..(k - 1) : text[j] \in Whitespace
            IN IF text[k] = ":" THEN k ELSE 0
       ELSE 0

\* re.sub(<quote>old_name<quote>(\s*):, <quote>new_name<quote>\1:, text) from
\* index pos on, done being the text produced so far
RECURSIVE re_sub_key(_, _, _, _, _, _)
re_sub_key(text, quote, old_name, new_name, pos, done) ==
    IF pos > Len(text) THEN done
    ELSE The({
        IF end = 0
        THEN The({re_sub_key(text, quote, old_name, new_name, pos + 1, longer) :
                  longer \in {Append(done, text[pos])}})
        ELSE The({re_sub_key(text, quote, old_name, new_name, end + 1, longer) :
                  longer \in {done \o <<quote>> \o new_name \o <<quote>>
                                 \o SubSeq(text, pos + Len(old_name) + 2, end)}})
        : end \in {key_match_end(text, quote, old_name, pos)}})

_apply_rename(jsonata, change) ==
    LET parts == Split(change.path, {Arrow})
    IN IF Len(parts) # 2 THEN None
       ELSE The({IF updated = jsonata THEN None ELSE updated :
                 updated \in {The({re_sub_key(double, "'", parts[1], parts[2], 1, <<>>) :
                                   double \in {re_sub_key(jsonata, "\"", parts[1], parts[2], 1, <<>>)}})}})

\* int(text) of a run of decimal digits
RECURSIVE int(_)
int(text) ==
    IF text = <<>> THEN 0
    ELSE 10 * int(SubSeq(text, 1, Len(text) - 1))
         + (CHOOSE d \in 0..9 : HexAlphabet[d + 1] = text[Len(text)])

\* str(n) of a natural number
RECURSIVE str(_)
str(n) == IF n < 10 THEN <<HexAlphabet[n + 1]>> ELSE str(n \div 10) \o <<HexAlphabet[(n % 10) + 1]>>

\* _bump_version: the updated metadata, or ValueError
_bump_version(meta) ==
    The({IF Len(parts) # 3 THEN ValueError
         ELSE LET model == parts[1]
                  revision == parts[2]
                  new_revision == int(revision) + 1
                  new_version == model \o <<".">> \o str(new_revision) \o <<".", "0">>
              IN [meta EXCEPT !.version = new_version]
         : parts \in {Split(meta.version, {"."})}})
\* One pass of the loop of patch_transform that attempts every Add and Rename,
\* whatever its auto_patchable flag
apply_change_any_flag(acc, change) ==
    LET skip == [acc EXCEPT !.skipped_changes = Append(@, change),
                            !.trace = Append(@, acc.jsonata_content)]
    IN IF change.change_type \in {ADD, RENAME}
       THEN The({IF Truthy(result)
                 THEN [acc EXCEPT !.jsonata_content = result,
                                  !.applied_changes = Append(@, change),
                                  !.trace = Append(@, result)]
                 ELSE skip
                 : result \in {IF change.change_type = ADD
                               THEN _apply_add(acc.jsonata_content, change)
                               ELSE _apply_rename(acc.jsonata_content, change)}})
       ELSE skip

\* One pass of the loop of patch_transform that forgets an Add or a Rename
\* that could not be applied
apply_change_losing_failed(acc, change) ==
    LET skip == [acc EXCEPT !.skipped_changes = Append(@, change),
                            !.trace = Append(@, acc.jsonata_content)]
    IN IF ~change.auto_patchable THEN skip
       ELSE IF change.change_type \in {ADD, RENAME}
       THEN The({IF Truthy(result)
                 THEN [acc EXCEPT !.jsonata_content = result,
                                  !.applied_changes = Append(@, change),
                                  !.trace = Append(@, result)]
                 ELSE [acc EXCEPT !.trace = Append(@, acc.jsonata_content)]
                 : result \in {IF change.change_type = ADD
                               THEN _apply_add(acc.jsonata_content, change)
                               ELSE _apply_rename(acc.jsonata_content, change)}})
       ELSE skip

\* One pass of the loop of patch_transform: the body, the applied and the
\* skipped changes so far are in acc; acc.trace keeps the body after each change.
apply_change(acc, change) ==
    LET skip == [acc EXCEPT !.skipped_changes = Append(@, change),
                            !.trace = Append(@, acc.jsonata_content)]
    IN IF ~change.auto_patchable THEN skip
       ELSE IF change.change_type \in {ADD, RENAME}
       THEN The({IF Truthy(result)
                 THEN [acc EXCEPT !.jsonata_content = result,
                                  !.applied_changes = Append(@, change),
                                  !.trace = Append(@, result)]
                 ELSE skip
                 : result \in {IF change.change_type = ADD
                               THEN _apply_add(acc.jsonata_content, change)
                               ELSE _apply_rename(acc.jsonata_content, change)}})
       ELSE skip

\* the loop of patch_transform over changes[i..]
RECURSIVE apply_changes(_, _, _)
apply_changes(acc, changes, i) ==
    IF i > Len(changes) THEN acc
    ELSE The({apply_changes(next, changes, i + 1) : next \in {apply_change(acc, changes[i])}})

\* the state of the loop of patch_transform after the last change
patch_loop(jsonata_content, changes) ==
    apply_changes([jsonata_content |-> jsonata_content, applied_changes |-> <<>>,
                   skipped_changes |-> <<>>, trace |-> <<>>], changes, 1)

NoAutoPatchable == <<"N","o"," ","a","u","t","o","-","p","a","t","c","h","a","b","l","e"," ","c","h","a","n","g","e","s"," ","f","o","u","n","d">>

\* str(e): the message of an exception, cut down to the name of its class
str_exception(e) ==
    IF e.error = "FileNotFoundError" THEN <<"F","i","l","e","N","o","t","F","o","u","n","d","E","r","r","o","r">>
    ELSE IF e.error = "ValidationError" THEN <<"V","a","l","i","d","a","t","i","o","n","E","r","r","o","r">>
    ELSE <<"V","a","l","u","e","E","r","r","o","r">>

\* patch_transform that reports success when no change was applied
patch_transform_without_gate(meta_file, dir, schema_diff, bump_version) ==
    The({IF "error" \in DOMAIN transform_loaded
         THEN PatchResult(FALSE, None, NoValue, <<>>, schema_diff.changes,
                          str_exception(transform_loaded))
         ELSE The({
                LET updated_meta == IF bump_version THEN _bump_version(transform_loaded.meta)
                                    ELSE transform_loaded.meta
                IN IF updated_meta = ValueError
                   THEN PatchResult(FALSE, None, NoValue, <<>>, schema_diff.changes,
                                    str_exception(ValueError))
                   ELSE PatchResult(TRUE, acc.jsonata_content, updated_meta,
                                    acc.applied_changes, acc.skipped_changes, None)
              : acc \in {patch_loop(decode(transform_loaded.jsonata), schema_diff.changes)}})
         : transform_loaded \in {TransformLoader_load(meta_file, dir)}})

\* patch_transform without its except clause: what load or _bump_version raises
\* reaches the caller
patch_transform_uncaught(meta_file, dir, schema_diff, bump_version) ==
    The({IF "error" \in DOMAIN transform_loaded
         THEN transform_loaded
         ELSE The({
                IF acc.applied_changes = <<>>
                THEN PatchResult(FALSE, None, NoValue, <<>>, acc.skipped_changes,
                                 NoAutoPatchable)
                ELSE LET updated_meta == IF bump_version THEN _bump_version(transform_loaded.meta)
                                         ELSE transform_loaded.meta
                     IN IF updated_meta = ValueError
                        THEN ValueError
                        ELSE PatchResult(TRUE, acc.jsonata_content, updated_meta,
                                         acc.applied_changes, acc.skipped_changes, None)
              : acc \in {patch_loop(decode(transform_loaded.jsonata), schema_diff.changes)}})
         : transform_loaded \in {TransformLoader_load(meta_file, dir)}})

\* patch_transform that bumps the version once for every applied change
patch_transform_bump_per_change(meta_file, dir, schema_diff, bump_version) ==
    The({IF "error" \in DOMAIN transform_loaded
         THEN PatchResult(FALSE, None, NoValue, <<>>, schema_diff.changes,
                          str_exception(transform_loaded))
         ELSE The({
                IF acc.applied_changes = <<>>
                THEN PatchResult(FALSE, None, NoValue, <<>>, acc.skipped_changes,
                                 NoAutoPatchable)
                ELSE LET updated_meta ==
                             IF ~bump_version THEN transform_loaded.meta
                             ELSE IF Len(acc.applied_changes) = 1
                             THEN _bump_version(transform_loaded.meta)
                             ELSE _bump_version(_bump_version(transform_loaded.meta))
                     IN PatchResult(TRUE, acc.jsonata_content, updated_meta,
                                    acc.applied_changes, acc.skipped_changes, None)
              : acc \in {patch_loop(decode(transform_loaded.jsonata), schema_diff.changes)}})
         : transform_loaded \in {TransformLoader_load(meta_file, dir)}})

\* patch_transform(transform_path, schema_diff, bump_version), the file at
\* transform_path being meta_file and its directory dir
patch_transform(meta_file, dir, schema_diff, bump_version) ==
    The({IF "error" \in DOMAIN transform_loaded
         THEN PatchResult(FALSE, None, NoValue, <<>>, schema_diff.changes,
                          str_exception(transform_loaded))
         ELSE The({
                IF acc.applied_changes = <<>>
                THEN PatchResult(FALSE, None, NoValue, <<>>, acc.skipped_changes,
                                 NoAutoPatchable)
                ELSE LET updated_meta == IF bump_version THEN _bump_version(transform_loaded.meta)
                                         ELSE transform_loaded.meta
                     IN IF updated_meta = ValueError
                        THEN PatchResult(FALSE, None, NoValue, <<>>, schema_diff.changes,
                                         str_exception(ValueError))
                        ELSE PatchResult(TRUE, acc.jsonata_content, updated_meta,
                                         acc.applied_changes, acc.skipped_changes, None)
              : acc \in {patch_loop(decode(transform_loaded.jsonata), schema_diff.changes)}})
         : transform_loaded \in {TransformLoader_load(meta_file, dir)}})

\* save_patched_transform(result, output_jsonata_path, output_meta_path) on
\* the directory of files: the directory after the writes, or ValueError
save_patched_transform(result, output_jsonata_path, output_meta_path, on_disk) ==
    IF ~result.success \/ ~Truthy(result.updated_jsonata) THEN ValueError
    ELSE [meta_file |-> IF Truthy(output_meta_path) /\ result.updated_meta # NoValue
                        THEN [version |-> result.updated_meta.version,
                              spec_path |-> result.updated_meta.spec_path,
                              checksum |-> result.updated_meta.checksum]
                        ELSE on_disk.meta_file,
          dir |-> Put(on_disk.dir, output_jsonata_path, encode(result.updated_jsonata))]

(***************************************************************************)
(* The patcher as a state machine: a transform on disk, a SchemaDiff and   *)
(* the calls of patch_transform on them.                                   *)
(***************************************************************************)
MaxChanges == 2

\* The transform bodies of the model: an empty object, an object with one key,
\* an object with a single-quoted key and blanks around it, an array mapping,
\* a concatenation of two objects, a path, and a conditional whose first
\* branch is a string literal.
PatchBodies ==
    { <<"{","}">>,
      <<"{","\"","a","\"",":","b","}">>,
      <<" ","{","'","a","'"," ",":","b","}","\n">>,
      <<"x",".","{","\"","a","\"",":","b","}">>,
      <<"{","\"","a","\"",":","b","}","&","{","}">>,
      <<"$",".","a">>,
      <<"x","?","\"","a","\"",":","b">> }

PatchVersion == <<"1",".","9",".","3">>

\* a version string that is not three dot-separated integers
TwoPartVersion == <<"1",".","0">>

\* The changes of the model: one of each type and flag that the patcher tells
\* apart, a Rename of a key no body has, and a Rename whose path has no arrow.
ChangeInputs ==
    {SchemaChange(ADD, <<"c">>, NoValue, NoValue, <<>>, auto) : auto \in BOOLEAN}
    \cup {SchemaChange(RENAME, <<"a">> \o <<Arrow>> \o <<"i","d">>, NoValue, NoValue, <<>>, auto) :
            auto \in BOOLEAN}
    \cup {SchemaChange(RENAME, <<"q">> \o <<Arrow>> \o <<"i","d">>, NoValue, NoValue, <<>>, TRUE)}
    \cup {SchemaChange(REMOVE, <<"a">>, NoValue, NoValue, <<>>, auto) : auto \in BOOLEAN}
    \cup {SchemaChange(TYPE_CHANGE, <<"a">>, NoValue, NoValue, <<>>, TRUE),
          SchemaChange(COMPLEX, <<"a">>, NoValue, NoValue, <<>>, FALSE)}

SchemaDiffInputs ==
    {SchemaDiff(DictPath, DictPath, changes) : changes \in SeqsUpTo(ChangeInputs, MaxChanges)}

\* The states of the transform's directory: the sidecar with the checksum of
\* the body beside it, the sidecar with a stale checksum, the sidecar with a
\* two-part version, no sidecar, no body.
TransformFiles ==
    UNION {{[meta_file |-> [version |-> PatchVersion, spec_path |-> SpecJsonata,
                            checksum |-> checksum],
             dir |-> Put(EmptyMap, SpecJsonata, encode(body))] :
               checksum \in {hexdigest(encode(body)), hexdigest(<<>>)}} :
           body \in PatchBodies}
    \cup {[meta_file |-> [version |-> TwoPartVersion, spec_path |-> SpecJsonata,
                          checksum |-> hexdigest(encode(body))],
           dir |-> Put(EmptyMap, SpecJsonata, encode(body))] :
            body \in PatchBodies}
    \cup {[meta_file |-> NoFile, dir |-> Put(EmptyMap, SpecJsonata, encode(body))] :
            body \in PatchBodies}
    \cup {[meta_file |-> [version |-> PatchVersion, spec_path |-> SpecJsonata,
                          checksum |-> hexdigest(<<>>)],
           dir |-> EmptyMap]}

\* No call yet. In patch, saved tells what save_patched_transform did with the
\* result: nothing yet, wrote it, or raised.
NotSaved == "no"
Written == "written"
SaveRaised == "ValueError"

NoPatch == [bump_version |-> FALSE, result |-> NoValue, trace |-> <<>>, saved |-> NotSaved]

\* patch holds the result of patch_transform on the transform now on disk
Patched == patch.result # NoValue /\ patch.saved # Written

PatchInit ==
    /\ transform \in TransformFiles
    /\ schemaDiff \in SchemaDiffInputs
    /\ patch = NoPatch

\* patch_transform(transform_path, schemaDiff, bump_version); the trace is the
\* body after each change of the loop, empty when the transform did not load
PatchTransform(bump_version) ==
    /\ patch' =
          [bump_version |-> bump_version,
           result |-> patch_transform(transform.meta_file, transform.dir,
                                      schemaDiff, bump_version),
           trace |-> The({IF "error" \in DOMAIN transform_loaded THEN <<>>
                          ELSE patch_loop(decode(transform_loaded.jsonata),
                                          schemaDiff.changes).trace
                          : transform_loaded \in
                               {TransformLoader_load(transform.meta_file, transform.dir)}}),
           saved |-> NotSaved]
    /\ UNCHANGED <<transform, schemaDiff>>

\* save_patched_transform(patch.result, output_jsonata_path, output_meta_path)
\* with the body written at spec_path beside the sidecar, and the sidecar
\* written over the loaded one when with_meta
SavePatched(with_meta) ==
    /\ patch.result # NoValue
    /\ patch.saved = NotSaved
    /\ \E after \in {save_patched_transform(patch.result, SpecJsonata,
                                            IF with_meta THEN SpecMetaName ELSE None,
                                            transform)} :
          IF after = ValueError
          THEN /\ patch' = [patch EXCEPT !.saved = SaveRaised]
               /\ UNCHANGED transform
          ELSE /\ patch' = [patch EXCEPT !.saved = Written]
               /\ transform' = after
    /\ UNCHANGED schemaDiff

PatchNext ==
    \/ \E bump_version \in BOOLEAN : PatchTransform(bump_version)
    \/ \E with_meta \in BOOLEAN : SavePatched(with_meta)

InitPatch == PatchInit /\ DifferIdle /\ LockIdle /\ LoaderIdle /\ ImportIdle /\ RootIdle

NextPatch ==
    PatchNext /\ UNCHANGED <<lockVars, loaderVars, importVars, rootVars, differVars>>

SpecPatch == InitPatch /\ [][NextPatch]_vars
(***************************************************************************)
(* Properties of the patcher                                               *)
(***************************************************************************)
\* TransformLoader.load accepts the transform on disk
LoadedOk == IsTransform(TransformLoader_load(transform.meta_file, transform.dir))

DiffChanges == schemaDiff.changes

\* the body the loop of patch_transform held before its i-th change
BodyBefore(i) ==
    IF i = 1 THEN decode(transform.dir[SpecJsonata]) ELSE patch.trace[i - 1]

\* the changes that altered the body
AppliedAt == {i \in 1..Len(patch.trace) : patch.trace[i] # BodyBefore(i)}

Occurs(change, changes) == \E j \in 1..Len(changes) : changes[j] = change

\* C17: a change is applied only if its type is Add or Rename and it is marked
\* auto-patchable; every change of another type, auto-patchable or not, and
\* every change not marked auto-patchable is in skipped_changes, not in
\* applied_changes, and leaves the body as it was.
C17_TypeGate ==
    Patched =>
        /\ \A j \in 1..Len(patch.result.applied_changes) :
              /\ patch.result.applied_changes[j].change_type \in {ADD, RENAME}
              /\ patch.result.applied_changes[j].auto_patchable
        /\ \A i \in 1..Len(DiffChanges) :
              (DiffChanges[i].change_type \notin {ADD, RENAME} \/ ~DiffChanges[i].auto_patchable)
                  => /\ Occurs(DiffChanges[i], patch.result.skipped_changes)
                     /\ ~Occurs(DiffChanges[i], patch.result.applied_changes)
                     /\ LoadedOk => patch.trace[i] = BodyBefore(i)

\* a successful run that skipped an auto-patchable change of another type
C17_Witness ==
    /\ Patched
    /\ patch.result.success
    /\ \E i \in 1..Len(DiffChanges) :
          /\ DiffChanges[i].change_type \notin {ADD, RENAME}
          /\ DiffChanges[i].auto_patchable
          /\ Occurs(DiffChanges[i], patch.result.skipped_changes)
          /\ patch.trace[i] = BodyBefore(i)

\* the result of a run that failed at the gate
GateFailure ==
    /\ patch.result.success = FALSE
    /\ patch.result.error = NoAutoPatchable
    /\ patch.result.updated_jsonata = None
    /\ patch.result.updated_meta = NoValue

Count(s, ch) == Cardinality({i \in 1..Len(s) : s[i] = ch})

\* s is one object literal: it opens with a brace that is closed by its last
\* character and by none before
IsSingleObjectLiteral(s) ==
    /\ Len(s) >= 2
    /\ s[1] = "{"
    /\ s[Len(s)] = "}"
    /\ Count(s, "{") = Count(s, "}")
    /\ \A k \in 1..(Len(s) - 1) :
          Count(SubSeq(s, 1, k), "{") > Count(SubSeq(s, 1, k), "}")

\* C19: an Add is applied only when the body, trimmed, is a single top-level
\* object literal; on every other body the Add is skipped and the body stays.
C19_AddOnlyOnObjectLiteral ==
    Patched =>
        \A i \in 1..Len(patch.trace) :
            (DiffChanges[i].change_type = ADD /\ ~IsSingleObjectLiteral(strip(BodyBefore(i))))
                => /\ patch.trace[i] = BodyBefore(i)
                   /\ Occurs(DiffChanges[i], patch.result.skipped_changes)

\* the applied Add changes
AddsAt == {i \in AppliedAt : DiffChanges[i].change_type = ADD}

\* the opening brace that the last character of s closes
MatchingOpen(s) ==
    CHOOSE q \in 1..(Len(s) - 1) :
        /\ s[q] = "{"
        /\ Count(SubSeq(s, q, Len(s)), "{") = Count(SubSeq(s, q, Len(s)), "}")
        /\ \A k \in (q + 1)..(Len(s) - 1) :
              Count(SubSeq(s, k, Len(s)), "{") # Count(SubSeq(s, k, Len(s)), "}")

\* the object closed by the last character of s has something in it
HadContent(s) ==
    \E k \in (MatchingOpen(s) + 1)..(Len(s) - 1) : s[k] \notin Whitespace

\* what an applied Add put between the old text before the final brace and
\* the final brace
Inserted(i) ==
    SubSeq(patch.trace[i], Len(strip(BodyBefore(i))), Len(patch.trace[i]) - 1)

QuotedNull(f) == <<"\"">> \o f \o <<"\"", ":", " ", "n", "u", "l", "l">>

RenameParts(change) == Split(change.path, {Arrow})

\* the quoted name starts at index p of text
QuotedAt(text, p, name) ==
    /\ p + Len(name) + 1 <= Len(text)
    /\ text[p] \in {"\"", "'"}
    /\ text[p + Len(name) + 1] = text[p]
    /\ SubSeq(text, p + 1, p + Len(name)) = name

\* the first character after index k of text that is not white space is a colon
ColonAfter(text, k) ==
    \E j \in (k + 1)..Len(text) :
        /\ text[j] = ":"
        /\ \A m \in (k + 1)..(j - 1) : text[m] \in Whitespace

\* index p of text is where a key of an object literal starts: the last
\* character before it that is not white space opens the object or separates
\* two of its fields
KeyPosition(text, p) ==
    \E j \in 1..(p - 1) :
        /\ text[j] \in {"{", ","}
        /\ \A m \in (j + 1)..(p - 1) : text[m] \in Whitespace

\* the occurrences of name in text as a quoted object key followed by a colon
KeyOccurrences(text, name) ==
    {p \in 1..Len(text) :
        /\ QuotedAt(text, p, name)
        /\ ColonAfter(text, p + Len(name) + 1)
        /\ KeyPosition(text, p)}

\* text from index pos on, with new_name for old_name in the quotes that
\* start at the indexes of keys
RECURSIVE RenameKeys(_, _, _, _, _)
RenameKeys(text, keys, old_name, new_name, pos) ==
    IF pos > Len(text) THEN <<>>
    ELSE IF pos \in keys
    THEN <<text[pos]>> \o new_name \o <<text[pos]>>
            \o RenameKeys(text, keys, old_name, new_name, pos + Len(old_name) + 2)
    ELSE <<text[pos]>> \o RenameKeys(text, keys, old_name, new_name, pos + 1)

\* the auto-patchable Renames of the diff that the loop reached
RenamesAt ==
    {i \in 1..Len(patch.trace) :
        /\ DiffChanges[i].change_type = RENAME
        /\ DiffChanges[i].auto_patchable
        /\ Len(RenameParts(DiffChanges[i])) = 2}

\* C21: a Rename old -> new rewrites every occurrence of old as a quoted object
\* key followed by a colon and leaves every other part of the body as it was,
\* a string literal that is not a key included; on a body with no such key the
\* Rename is not applied and is reported in skipped_changes.
C21_ConservativeRename ==
    Patched =>
        \A i \in RenamesAt :
            \E old \in {BodyBefore(i)}, parts \in {RenameParts(DiffChanges[i])} :
                \E keys \in {KeyOccurrences(old, parts[1])} :
                    /\ patch.trace[i] = RenameKeys(old, keys, parts[1], parts[2], 1)
                    /\ keys = {} => Occurs(DiffChanges[i], patch.result.skipped_changes)

(***************************************************************************)
(* Properties of the version bump and of saving                            *)
(***************************************************************************)
\* a natural number below 100 in decimal
Decimal(n) ==
    IF n < 10 THEN <<HexAlphabet[n + 1]>>
    ELSE <<HexAlphabet[(n \div 10) + 1], HexAlphabet[(n % 10) + 1]>>

\* the version text M.R.A
VersionText(m, r, a) == Decimal(m) \o <<".">> \o Decimal(r) \o <<".">> \o Decimal(a)

\* C22: a successful run of patch_transform on a transform at version M.R.A
\* returns metadata at version M.(R+1).0 when bump_version is true, however
\* many changes it applied, and at version M.R.A when it is false; the other
\* fields are the loaded ones and the transform on disk stays as it was.
C22_VersionBump ==
    [][(patch'.result # NoValue /\ patch'.saved = NotSaved) =>
          /\ transform' = transform
          /\ patch'.result.success =>
                \E m \in 0..10, r \in 0..10, a \in 0..10 :
                    /\ transform.meta_file.version = VersionText(m, r, a)
                    /\ patch'.result.updated_meta.version =
                          (IF patch'.bump_version THEN VersionText(m, r + 1, 0)
                           ELSE VersionText(m, r, a))
                    /\ patch'.result.updated_meta.checksum = transform.meta_file.checksum
                    /\ patch'.result.updated_meta.spec_path = transform.meta_file.spec_path]_vars

\* a run with bump_version that applied two changes and went from 1.9.3 to 1.10.0
C22_Witness ==
    /\ Patched
    /\ patch.result.success
    /\ patch.bump_version
    /\ Len(patch.result.applied_changes) = 2
    /\ transform.meta_file.version = <<"1",".","9",".","3">>
    /\ patch.result.updated_meta.version = <<"1",".","1","0",".","0">>

\* the call ended with an exception and no PatchResult
Raises(result) == "success" \notin DOMAIN result

\* the sidecar is there and its version is not three dot-separated integers
InvalidVersion ==
    /\ transform.meta_file # NoFile
    /\ ~VersionPattern(transform.meta_file.version)

SavedReturned ==
    /\ patch.saved = Written
    /\ transform.meta_file = patch.result.updated_meta
    /\ transform.dir[transform.meta_file.spec_path] = encode(patch.result.updated_jsonata)

\* C24: after a successful patch_transform, the returned body and metadata
\* written by save_patched_transform are a transform that TransformLoader.load
\* accepts: the checksum of the returned metadata is the SHA-256 of the
\* returned body.
C24_IntegritySurvivesPatch ==
    SavedReturned =>
        /\ LoadedOk
        /\ patch.result.updated_meta.checksum = hexdigest(encode(patch.result.updated_jsonata))

(***************************************************************************)
(* Properties of the differ: required targets and the pairing of renames   *)
(***************************************************************************)
\* C25: no change that introduces a property of the target's required set
\* that the source does not have, be it an Add or the target of a Rename, is
\* auto-patchable.
C25_RequiredNeverAutoPatchable ==
    Diffed =>
        \A a \in AddedFields \cap to_schema.required :
            \A i \in Entries(ADD, a) \cup RenamesTo(a) : ~Changes[i].auto_patchable

\* C26: no added property is the target of more than one Rename, and every
\* removed and every added property name is accounted for by exactly one entry
\* among the Add, Remove and Rename changes.
C26_RenamePairingOneToOne ==
    Diffed =>
        /\ \A a \in AddedFields :
              /\ Cardinality(RenamesTo(a)) <= 1
              /\ Cardinality(Entries(ADD, a)) + Cardinality(RenamesTo(a)) = 1
        /\ \A r \in RemovedFields :
              Cardinality(Entries(REMOVE, r)) + Cardinality(RenamesFrom(r)) = 1

\* C25 amended: a property of the target's required set that the source does
\* not have is reported either as one Add that is not auto-patchable, or as
\* the target of Renames, which are auto-patchable whatever the required set.
C25_RequiredAddNeverAutoPatchable ==
    Diffed =>
        \A a \in AddedFields \cap to_schema.required :
            /\ \A i \in Entries(ADD, a) : ~Changes[i].auto_patchable
            /\ \A i \in RenamesTo(a) : Changes[i].auto_patchable
            /\ (Entries(ADD, a) = {}) <=> (RenamesTo(a) # {})

\* a diff with a newly required property that is the target of a Rename and
\* another one that stayed an Add
C25_Witness ==
    /\ Diffed
    /\ \E a \in AddedFields \cap to_schema.required : RenamesTo(a) # {}
    /\ \E a \in AddedFields \cap to_schema.required : Entries(ADD, a) # {}

(***************************************************************************)
(* Properties of the applied and the skipped lists                         *)
(***************************************************************************)
\* the entries of changes at the indexes of I, in the order of changes
Restrict(changes, I) ==
    [k \in 1..Cardinality(I) |->
        changes[CHOOSE i \in I : Cardinality({j \in I : j <= i}) = k]]

\* C27: after every run of patch_transform, successful, applying nothing or
\* failing to load the transform, the changes of the diff split into
\* applied_changes and skipped_changes: each change, taken by its position in
\* the diff, is in exactly one of the two lists, and each list keeps the
\* order of the diff.
C27_AppliedSkippedPartition ==
    Patched =>
        \E I \in SUBSET (1..Len(DiffChanges)) :
            /\ patch.result.applied_changes = Restrict(DiffChanges, I)
            /\ patch.result.skipped_changes =
                  Restrict(DiffChanges, (1..Len(DiffChanges)) \ I)
            /\ LoadedOk => I = AppliedAt

\* a successful run that skipped a Rename it could not apply before an Add
\* that it applied
C27_Witness ==
    /\ Patched
    /\ patch.result.success
    /\ Len(DiffChanges) = 2
    /\ DiffChanges[1].change_type = RENAME /\ DiffChanges[1].auto_patchable
    /\ patch.result.skipped_changes = <<DiffChanges[1]>>
    /\ patch.result.applied_changes = <<DiffChanges[2]>>

(***************************************************************************)
(* The artifact resolver in one project whose config.yaml is rewritten,    *)
(* called with references that name a parent directory or an absolute path *)
(***************************************************************************)
\* the values written to registry.root: the default, the root itself, a
\* nested directory, an absolute path and a path through the parent
ConfigRootInputs ==
    {DefaultRoot, <<".">>, <<"r","/","s">>, <<"/","e">>, <<".",".","/","e">>}

\* a schema reference whose vendor is '..' and a transform reference whose id
\* starts with '/'
SchemaRefParent == <<"i","g","l","u",":",".",".","/","n","/","j","s","o","n","s","c","h","e","m","a","/","1","-","0","-","0">>
TransformRefAbsolute == <<"/","e","@","1",".","0",".","0">>

ContainSchemaRefs == {SchemaRefA, SchemaRefParent, SchemaRefInvalid}
ContainTransformRefs == {TransformRefA, TransformRefAbsolute, TransformRefInvalid}
ContainRootArgs == {NoPath, [path |-> ProjectRoot]}

\* config.yaml of the project is written with registry.root = v
WriteConfig(v) ==
    /\ configRoot # v
    /\ configRoot' = v
    /\ call' = NoCall
    /\ UNCHANGED <<markers, cwd, home, envRoot, files, converted>>

ContainNext ==
    \/ \E v \in ConfigRootInputs : WriteConfig(v)
    \/ \E ref \in ContainSchemaRefs, root_arg \in ContainRootArgs, must_exist \in BOOLEAN :
          ResolveSchema(ref, root_arg, must_exist)
    \/ \E ref \in ContainTransformRefs, root_arg \in ContainRootArgs, must_exist \in BOOLEAN :
          ResolveTransform(ref, root_arg, must_exist)
    \/ \E ref \in ContainTransformRefs, root_arg \in ContainRootArgs, must_exist \in BOOLEAN :
          ResolveJsonata(ref, root_arg, must_exist)

InitContain == ResolveInit /\ LockIdle /\ LoaderIdle /\ ImportIdle /\ EvolveIdle

NextContain ==
    ContainNext /\ UNCHANGED <<lockVars, loaderVars, importVars, differVars, patchVars>>

SpecContain == InitContain /\ [][NextContain]_vars

\* the directory of the registry that holds the artifacts of a resolver call
ArtifactDir(op) ==
    IF op = "resolve_schema" THEN <<"s","c","h","e","m","a","s">> ELSE <<"t","r","a","n","s","f","o","r","m","s">>

\* C28: when the resolver accepts the reference and the configuration root,
\* the registry path lies inside the .canonizer directory and the path
\* returned by resolve_schema, resolve_transform and resolve_jsonata lies
\* inside registry/schemas, resp. registry/transforms.
C28_ResolutionInsideRegistry ==
    (call.op \in ResolverConsumers /\ "path" \in DOMAIN call.result) =>
        \E registry \in {get_registry_path(ConfigData, ProjectRoot)} :
            /\ StartsWith(registry, ProjectRoot)
            /\ StartsWith(call.result.path, Append(registry, ArtifactDir(call.op)))

(***************************************************************************)
(* Frame of the lock operations                                            *)
(***************************************************************************)
\* the entries of a map other than the one of key r are the same in old and new
SameButFor(old, new, r) ==
    /\ DOMAIN new \ {r} = DOMAIN old \ {r}
    /\ \A k \in DOMAIN old \ {r} : new[k] = old[k]

\* C29: add_schema(r, ...) changes the schemas entry of r only and no
\* transforms entry, add_transform(r, ...) changes the transforms entry of r
\* only and no schemas entry, also when r is a key of both maps; verify_schema,
\* verify_transform, get_schema_path and get_transform_path change no entry.
C29_LockFrame ==
    [][/\ ret'.op = "add_schema" =>
             /\ SameButFor(lock.schemas, lock'.schemas, ret'.ref)
             /\ lock'.transforms = lock.transforms
       /\ ret'.op = "add_transform" =>
             /\ SameButFor(lock.transforms, lock'.transforms, ret'.ref)
             /\ lock'.schemas = lock.schemas
       /\ ret'.op \in {"verify_schema", "verify_transform",
                       "get_schema_path", "get_transform_path"} =>
             /\ lock'.schemas = lock.schemas
             /\ lock'.transforms = lock.transforms]_vars

\* add_transform has just written the entry of a reference that is also a key
\* of the schemas map, beside another schema entry, and the two entries of the
\* reference differ
C29_Witness ==
    /\ ret.op = "add_transform"
    /\ ret.ref \in DOMAIN lock.schemas
    /\ ret.ref \in DOMAIN lock.transforms
    /\ lock.schemas[ret.ref].hash # lock.transforms[ret.ref].hash
    /\ SchemaRefA \in DOMAIN lock.schemas
    /\ ret.ref # SchemaRefA

(***************************************************************************)
(* Import commands run one after the other (import_cmd.py): `import run`   *)
(* and `import all`, each against the source registry given by --from.     *)
(* Here procs is the record of what the commands reported as imported.     *)
(***************************************************************************)
\* a < b for two texts, character by character
RECURSIVE LessText(_, _)
LessText(a, b) ==
    IF b = <<>> THEN FALSE
    ELSE IF a = <<>> THEN TRUE
    ELSE IF a[1] # b[1] THEN ord(a[1]) < ord(b[1])
    ELSE LessText(Tail(a), Tail(b))

\* p < q for two paths given by their components
RECURSIVE LessParts(_, _)
LessParts(p, q) ==
    IF q = <<>> THEN FALSE
    ELSE IF p = <<>> THEN TRUE
    ELSE IF p[1] # q[1] THEN LessText(p[1], q[1])
    ELSE LessParts(Tail(p), Tail(q))

\* sorted(...) over the directories walked: the paths of S in ascending order
SortedPaths(S) ==
    [k \in 1..Cardinality(S) |->
        CHOOSE p \in S : Cardinality({q \in S : LessParts(q, p)}) = k - 1]

\* collect_schema_refs: a reference for every schemas/<vendor>/<name>/jsonschema/<version>.json
collect_schema_refs(source_registry) ==
    The({[k \in 1..Len(found) |->
              IgluPrefix \o found[k][2] \o <<"/">> \o found[k][3] \o <<"/">> \o JsonschemaSegment
                  \o <<"/">> \o SubSeq(found[k][5], 1, Len(found[k][5]) - 5)]
         : found \in {SortedPaths({parts \in {Split(f, {"/"}) : f \in DOMAIN source_registry} :
                                      /\ Len(parts) = 5
                                      /\ parts[1] = <<"s","c","h","e","m","a","s">>
                                      /\ parts[4] = JsonschemaSegment
                                      /\ EndsWith(parts[5], <<".","j","s","o","n">>)})}})

\* collect_transform_refs: a reference for every
\* transforms/<category>/<name>/<version>/ that holds a spec.meta.yaml
collect_transform_refs(source_registry, category) ==
    The({[k \in 1..Len(found) |->
              found[k][2] \o <<"/">> \o found[k][3] \o <<"@">> \o found[k][4]]
         : found \in {SortedPaths({parts \in {Split(f, {"/"}) : f \in DOMAIN source_registry} :
                                      /\ Len(parts) = 5
                                      /\ parts[1] = <<"t","r","a","n","s","f","o","r","m","s">>
                                      /\ parts[5] = SpecMetaName
                                      /\ Truthy(category) => parts[2] = category})}})

\* What a command has done so far: the files of the local registry, the
\* LockFile in memory, the references it printed as imported, and whether an
\* exception left the loop.
Progress(registry, lk, reported, raised) ==
    [registry |-> registry, lock |-> lk, reported |-> reported, raised |-> raised]

\* the loop over schema references from refs[i] on; catch_all tells whether
\* the loop catches every exception or FileNotFoundError only
RECURSIVE import_schemas(_, _, _, _, _)
import_schemas(refs, source_registry, acc, catch_all, i) ==
    IF i > Len(refs) THEN acc
    ELSE The({
        IF "error" \in DOMAIN done
        THEN IF catch_all \/ done.error = "FileNotFoundError"
             THEN import_schemas(refs, source_registry, acc, catch_all, i + 1)
             ELSE [acc EXCEPT !.raised = TRUE]
        ELSE The({import_schemas(refs, source_registry, next, catch_all, i + 1)
                  : next \in {Progress(done.registry, done.lock,
                                       acc.reported \cup {<<"schema", refs[i]>>}, FALSE)}})
        : done \in {import_schema(refs[i], source_registry, acc.registry, acc.lock)}})

\* the loop of import_all over transform references from refs[i] on
RECURSIVE import_transforms(_, _, _, _, _)
import_transforms(refs, source_registry, acc, transforms_only, i) ==
    IF i > Len(refs) THEN acc
    ELSE The({
        IF "error" \in DOMAIN done
        THEN import_transforms(refs, source_registry, acc, transforms_only, i + 1)
        ELSE The({import_transforms(refs, source_registry, next, transforms_only, i + 1)
                  : next \in {The({
                        IF transforms_only
                        THEN import_schemas(schemas_to_import(refs[i], done.registry),
                                            source_registry, copied, TRUE, 1)
                        ELSE copied
                        : copied \in {Progress(done.registry, done.lock,
                                               acc.reported \cup {<<"transform", refs[i]>>},
                                               FALSE)}})}})
        : done \in {import_transform(refs[i], source_registry, acc.registry, acc.lock)}})

\* the files on disk and the references reported when a command ends
Outcome(lock_file, registry, reported) ==
    [disk |-> [lock |-> lock_file, registry |-> registry], reported |-> reported]

\* canonizer import all --from source_registry [--category c] [--schemas-only]
\* [--transforms-only], in the project whose files are on_disk, at time now
import_all(source_registry, category, schemas_only, transforms_only, on_disk, now) ==
    IF schemas_only /\ transforms_only THEN Outcome(on_disk.lock, on_disk.registry, {})
    ELSE The({
        IF schema_refs = <<>> /\ transform_refs = <<>>
        THEN Outcome(on_disk.lock, on_disk.registry, {})
        ELSE The({Outcome(LockFile_save(acc.lock, on_disk.lock, now + 1),
                          acc.registry, acc.reported)
                  : acc \in {import_transforms(transform_refs, source_registry,
                                import_schemas(schema_refs, source_registry,
                                               Progress(on_disk.registry, lk, {}, FALSE), TRUE, 1),
                                transforms_only, 1)}})
        : lk \in {IF on_disk.lock # NoFile THEN LockFile_load(on_disk.lock)
                  ELSE LockFile_empty(now)},
          schema_refs \in {IF ~transforms_only THEN collect_schema_refs(source_registry)
                           ELSE <<>>},
          transform_refs \in {IF ~schemas_only
                              THEN collect_transform_refs(source_registry, category)
                              ELSE <<>>}})

\* canonizer import run --from source_registry [--no-schemas] ref
import_run(ref, source_registry, with_schemas, on_disk, now) ==
    The({
        IF ref_type = "InvalidReferenceError" THEN Outcome(on_disk.lock, on_disk.registry, {})
        ELSE The({
            IF "error" \in DOMAIN done THEN Outcome(on_disk.lock, on_disk.registry, {})
            ELSE The({
                IF acc.raised THEN Outcome(on_disk.lock, acc.registry, acc.reported)
                ELSE Outcome(LockFile_save(acc.lock, on_disk.lock, now + 1),
                             acc.registry, acc.reported)
                : acc \in {IF ref_type = "transform" /\ with_schemas
                           THEN import_schemas(schemas_to_import(ref, done.registry),
                                               source_registry,
                                               Progress(done.registry, done.lock,
                                                        {<<ref_type, ref>>}, FALSE),
                                               FALSE, 1)
                           ELSE Progress(done.registry, done.lock, {<<ref_type, ref>>}, FALSE)}})
            : done \in {IF ref_type = "schema"
                        THEN import_schema(ref, source_registry, on_disk.registry, lk)
                        ELSE import_transform(ref, source_registry, on_disk.registry, lk)}})
        : ref_type \in {detect_ref_type(ref)},
          lk \in {IF on_disk.lock # NoFile THEN LockFile_load(on_disk.lock)
                  ELSE LockFile_empty(now)}})

\* Three source registries: the one of the concurrent model; one whose
\* schema A has other bytes and whose transform A has a sidecar and no
\* spec.jsonata; one whose transform A names a malformed schema reference.
SourceNoBody ==
    (SchemaPathA :> <<1>>)
    @@ ((TransformDirA \o <<"/">> \o SpecMetaName) :>
            [from_schema |-> SchemaRefA, to_schema |-> SchemaRefC])

SourceBadSidecar ==
    (SchemaPathA :> <<0>>)
    @@ ((TransformDirA \o <<"/">> \o SpecJsonataName) :> <<1>>)
    @@ ((TransformDirA \o <<"/">> \o SpecMetaName) :>
            [from_schema |-> SchemaRefInvalid, to_schema |-> SchemaRefA])

\* the number of import commands run one after the other
MaxCommands == 3

Sources == {Source, SourceNoBody, SourceBadSidecar}
Categories == {None, <<"e","m","a","i","l">>, <<"f","o","r","m","s">>}

BulkInit ==
    /\ disk = [lock |-> NoFile, registry |-> EmptyMap]
    /\ procs = [reported |-> {}, command |-> "none"]
    /\ clock = 0
    /\ lastWriter = 0

ImportRun(ref, source_registry, with_schemas) ==
    /\ clock < MaxCommands
    /\ \E after \in {import_run(ref, source_registry, with_schemas, disk, clock)} :
          /\ disk' = after.disk
          /\ procs' = [reported |-> procs.reported \cup after.reported, command |-> "run"]
    /\ clock' = clock + 1
    /\ UNCHANGED lastWriter

ImportAll(source_registry, category, schemas_only, transforms_only) ==
    /\ clock < MaxCommands
    /\ \E after \in {import_all(source_registry, category, schemas_only, transforms_only,
                                disk, clock)} :
          /\ disk' = after.disk
          /\ procs' = [reported |-> procs.reported \cup after.reported, command |-> "all"]
    /\ clock' = clock + 1
    /\ UNCHANGED lastWriter

BulkNext ==
    \/ \E ref \in ImportRefs, source_registry \in Sources, with_schemas \in BOOLEAN :
          ImportRun(ref, source_registry, with_schemas)
    \/ \E source_registry \in Sources, category \in Categories,
          schemas_only \in BOOLEAN, transforms_only \in BOOLEAN :
          ImportAll(source_registry, category, schemas_only, transforms_only)

InitBulk == BulkInit /\ LockIdle /\ LoaderIdle /\ RootIdle /\ EvolveIdle

NextBulk == BulkNext /\ UNCHANGED <<lockVars, loaderVars, rootVars, differVars, patchVars>>

SpecBulk == InitBulk /\ [][NextBulk]_vars

\* the file of the local registry whose bytes the lock entry of a reference
\* hashes: the schema file, or the body file of the transform
LockedFile(kind, ref) ==
    IF kind = "schema" THEN schema_ref_to_path(ref)
    ELSE The({SubSeq(meta_path, 1, Len(meta_path) - Len(SpecMetaName)) \o SpecJsonataName
              : meta_path \in {transform_ref_to_path(ref)}})

\* the path that the lock entry of a reference holds
LockedPath(kind, ref) ==
    IF kind = "schema" THEN schema_ref_to_path(ref) ELSE transform_ref_to_path(ref)

EntriesOf(kind) == IF kind = "schema" THEN disk.lock.schemas ELSE disk.lock.transforms

\* C30: after any sequence of import run and import all commands, every
\* reference reported as imported has an entry in the saved lock file whose
\* path is the path derived from the reference and whose hash is the one of
\* the bytes of the local copy, and every lock entry refers to a file of the
\* local registry.
C30_LockMatchesLocalCopy ==
    /\ \A item \in procs.reported :
          /\ disk.lock # NoFile
          /\ item[2] \in DOMAIN EntriesOf(item[1])
          /\ EntriesOf(item[1])[item[2]].path = LockedPath(item[1], item[2])
          /\ LockedFile(item[1], item[2]) \in DOMAIN disk.registry
          /\ EntriesOf(item[1])[item[2]].hash =
                Sha256Prefix \o hexdigest(disk.registry[LockedFile(item[1], item[2])])
    /\ disk.lock # NoFile =>
          \A kind \in {"schema", "transform"} :
              \A ref \in DOMAIN EntriesOf(kind) :
                  EntriesOf(kind)[ref].path \in DOMAIN disk.registry

====
